---- MODULE Spec2Model ----
(***************************************************************************)
(* EagleEyeLite: the rule-expression evaluator (eagleeye/audit/evaluator)  *)
(* as a state machine.                                                     *)
(*                                                                         *)
(* A text (a Python str) is a sequence of characters, each character a     *)
(* one-element string.  TLA+ strings hold no CJK ideograph, so an          *)
(* ideograph is written by its code point ("U+5B57"); it is one character  *)
(* of the text like any other.  A Python value is a record of one fixed    *)
(* shape (see Num, Str, ...), a number an exact fraction n/d with d = 0    *)
(* for the IEEE specials (1/0 = inf, -1/0 = -inf, 0/0 = nan).              *)
(***************************************************************************)
EXTENDS Integers, Sequences, FiniteSets, TLC

VARIABLES
    logic_schema,     \* evaluate's argument: the rule's expression text
    financial_data,   \* evaluate's argument: the record, a dict in insertion order
    schema_id,        \* which entry of the rulebook logic_schema was taken from
    _evidence,        \* LogicEvaluator._evidence, the instance's scratch dict
    outcome,          \* what evaluate gave its caller (a result dict, or an exception)
    eval_calls,       \* the texts handed to the builtin eval() during the call
    frame,            \* evaluate's local variables processed and substituted
    pc,               \* "ready" before the call, "done" after it
    world,            \* what the collaborators of an audit run give: document, rules, report
    state,            \* the AuditState of the run
    next_node,        \* the node of the graph that runs next, "END", or "raised"
    trace,            \* the nodes that ran, in order, with the rule each audit step evaluated
    report,           \* an AuditReport on its own, between calls of its add_finding
    events,           \* what the graph's stream() has yielded: each node's name and dict
    loader,           \* load_rules_from_jsonl: the file's lines, the place in it, the rules
    instance,         \* one LogicEvaluator used for call after call, and what it returned
    runs              \* audit runs under way at the same time, each with its own state

vars ==
    <<logic_schema, financial_data, schema_id, _evidence, outcome, eval_calls, frame, pc,
      world, state, next_node, trace, report, events, loader, instance, runs>>

(***************************************************************************)
(* Characters                                                              *)
(***************************************************************************)
Letters ==
    {"a","b","c","d","e","f","g","h","i","j","k","l","m","n","o","p","q","r","s",
     "t","u","v","w","x","y","z","A","B","C","D","E","F","G","H","I","J","K","L",
     "M","N","O","P","Q","R","S","T","U","V","W","X","Y","Z"}

DigitSeq == <<"0","1","2","3","4","5","6","7","8","9">>

Digits == {DigitSeq[i] : i \in 1..10}

\* the ideographs of the range 一-鿿 that the modelled texts use
\* (U+5305 U+542B spell the contains operator)
CJK == {"U+5B57", "U+6BB5", "U+7F3A", "U+5305", "U+542B", "U+884C", "U+5217"}

\* \w of a Python 3 str pattern
WordChars == Letters \cup Digits \cup CJK \cup {"_"}

\* \s
Spaces == {" "}

Quote == "\""

Apostrophe == "'"

\* a character class: the set, or its complement when neg
Cls(set) == [neg |-> FALSE, set |-> set]

NotCls(set) == [neg |-> TRUE, set |-> set]

InCls(c, cls) == (c \in cls.set) # cls.neg

(***************************************************************************)
(* str operations                                                          *)
(***************************************************************************)
\* text[i:] starts with pat (i counts from 1)
StartsAt(text, i, pat) ==
    /\ i >= 1
    /\ i + Len(pat) - 1 <= Len(text)
    /\ SubSeq(text, i, i + Len(pat) - 1) = pat

RECURSIVE FindFrom(_, _, _)
\* str.find from position i: the first index >= i where pat occurs, 0 when none
FindFrom(text, pat, i) ==
    IF i + Len(pat) - 1 > Len(text) THEN 0
    ELSE IF StartsAt(text, i, pat) THEN i
    ELSE FindFrom(text, pat, i + 1)

\* pat in text
Contains(text, pat) == FindFrom(text, pat, 1) # 0

RECURSIVE Replace(_, _, _)
\* str.replace(old, new), old non-empty
Replace(text, old, new) ==
    LET i == FindFrom(text, old, 1) IN
    IF i = 0 THEN text
    ELSE SubSeq(text, 1, i - 1) \o new
         \o Replace(SubSeq(text, i + Len(old), Len(text)), old, new)

RECURSIVE Split(_, _)
\* str.split(sep), sep non-empty: the list of parts
Split(text, sep) ==
    LET i == FindFrom(text, sep, 1) IN
    IF i = 0 THEN <<text>>
    ELSE <<SubSeq(text, 1, i - 1)>> \o Split(SubSeq(text, i + Len(sep), Len(text)), sep)

RECURSIVE LStrip(_)
LStrip(text) ==
    IF text # <<>> /\ Head(text) \in Spaces THEN LStrip(Tail(text)) ELSE text

RECURSIVE RStrip(_)
RStrip(text) ==
    IF text # <<>> /\ text[Len(text)] \in Spaces
    THEN RStrip(SubSeq(text, 1, Len(text) - 1)) ELSE text

\* str.strip()
Strip(text) == LStrip(RStrip(text))

RECURSIVE CollapseSpaces(_)
\* " ".join(text.split()) on a text already stripped
CollapseSpaces(text) ==
    IF text = <<>> THEN <<>>
    ELSE IF Head(text) \in Spaces
         THEN <<" ">> \o CollapseSpaces(LStrip(text))
         ELSE <<Head(text)>> \o CollapseSpaces(Tail(text))

\* " ".join(text.split())
JoinSplit(text) == CollapseSpaces(Strip(text))

RECURSIVE Concat(_)
\* "".join(parts)
Concat(parts) == IF parts = <<>> THEN <<>> ELSE Head(parts) \o Concat(Tail(parts))

RECURSIVE IntDigits(_)
IntDigits(n) ==
    IF n < 10 THEN <<DigitSeq[n + 1]>> ELSE IntDigits(n \div 10) \o <<DigitSeq[(n % 10) + 1]>>

\* str(n) of an int
IntStr(n) == IF n < 0 THEN <<"-">> \o IntDigits(-n) ELSE IntDigits(n)

DigitVal(c) == CHOOSE i \in 0..9 : DigitSeq[i + 1] = c

RECURSIVE DigitsVal(_)
\* the value of a run of decimal digits
DigitsVal(ds) ==
    IF ds = <<>> THEN 0
    ELSE 10 * DigitsVal(SubSeq(ds, 1, Len(ds) - 1)) + DigitVal(ds[Len(ds)])

AllIn(text, set) == \A i \in 1..Len(text) : text[i] \in set

(***************************************************************************)
(* The re module: a backtracking matcher for the pattern shapes the        *)
(* evaluator uses.  A pattern is a sequence of elements:                   *)
(*   lit  a literal text                                                   *)
(*   rep  a greedy repetition cls+ (min 1) or cls* (min 0), group g or 0   *)
(*   alt  an ordered alternation of literal texts, group g or 0            *)
(*   b    the word boundary \b                                             *)
(***************************************************************************)
Lit(s) == [t |-> "lit", s |-> s]

Rep(cls, min, g) == [t |-> "rep", cls |-> cls, min |-> min, g |-> g]

Alt(opts, g) == [t |-> "alt", opts |-> opts, g |-> g]

WordBoundary == [t |-> "b"]

IsWordAt(text, i) == i >= 1 /\ i <= Len(text) /\ text[i] \in WordChars

\* \b holds between text[pos-1] and text[pos]
AtBoundary(text, pos) == IsWordAt(text, pos - 1) # IsWordAt(text, pos)

RECURSIVE RunLen(_, _, _)
\* how many characters from pos on are in cls
RunLen(text, pos, cls) ==
    IF pos <= Len(text) /\ InCls(text[pos], cls) THEN 1 + RunLen(text, pos + 1, cls) ELSE 0

NoMatch == [ok |-> FALSE, start |-> 0, end |-> 0, caps |-> <<<<>>, <<>>, <<>>>>]

SetCap(m, g, s) == IF g = 0 THEN m ELSE [m EXCEPT !.caps[g] = s]

RECURSIVE ReMatchAt(_, _, _, _), ReTryRep(_, _, _, _, _), ReTryAlt(_, _, _, _, _)
\* match pat[k..] at pos; the first success in the engine's order (greedy, leftmost alternative)
ReMatchAt(pat, k, text, pos) ==
    IF k > Len(pat) THEN [NoMatch EXCEPT !.ok = TRUE, !.end = pos]
    ELSE LET el == pat[k] IN
         CASE el.t = "lit" ->
                IF StartsAt(text, pos, el.s)
                THEN ReMatchAt(pat, k + 1, text, pos + Len(el.s)) ELSE NoMatch
           [] el.t = "b" ->
                IF AtBoundary(text, pos) THEN ReMatchAt(pat, k + 1, text, pos) ELSE NoMatch
           [] el.t = "rep" -> ReTryRep(pat, k, text, pos, RunLen(text, pos, el.cls))
           [] el.t = "alt" -> ReTryAlt(pat, k, text, pos, 1)

ReTryRep(pat, k, text, pos, n) ==
    IF n < pat[k].min THEN NoMatch
    ELSE LET r == ReMatchAt(pat, k + 1, text, pos + n) IN
         IF r.ok THEN SetCap(r, pat[k].g, SubSeq(text, pos, pos + n - 1))
         ELSE ReTryRep(pat, k, text, pos, n - 1)

ReTryAlt(pat, k, text, pos, j) ==
    IF j > Len(pat[k].opts) THEN NoMatch
    ELSE LET o == pat[k].opts[j]
             r == IF StartsAt(text, pos, o)
                  THEN ReMatchAt(pat, k + 1, text, pos + Len(o)) ELSE NoMatch
         IN IF r.ok THEN SetCap(r, pat[k].g, o) ELSE ReTryAlt(pat, k, text, pos, j + 1)

RECURSIVE ReSearch(_, _, _)
\* re.search from position pos: the leftmost match
ReSearch(pat, text, pos) ==
    IF pos > Len(text) + 1 THEN NoMatch
    ELSE LET m == ReMatchAt(pat, 1, text, pos) IN
         IF m.ok THEN [m EXCEPT !.start = pos] ELSE ReSearch(pat, text, pos + 1)

Grp(g) == [t |-> "grp", g |-> g]

RECURSIVE Expand(_, _)
\* a replacement template (literal texts and group references) on a match
Expand(tmpl, caps) ==
    IF tmpl = <<>> THEN <<>>
    ELSE (IF Head(tmpl).t = "grp" THEN caps[Head(tmpl).g] ELSE Head(tmpl).s)
         \o Expand(Tail(tmpl), caps)

RECURSIVE ReSubFrom(_, _, _, _)
ReSubFrom(pat, tmpl, text, pos) ==
    LET m == ReSearch(pat, text, pos) IN
    IF ~m.ok THEN SubSeq(text, pos, Len(text))
    ELSE SubSeq(text, pos, m.start - 1) \o Expand(tmpl, m.caps)
         \o (IF m.end > m.start THEN ReSubFrom(pat, tmpl, text, m.end)
             ELSE IF m.start > Len(text) THEN <<>>
             ELSE <<text[m.start]>> \o ReSubFrom(pat, tmpl, text, m.start + 1))

\* re.sub(pat, tmpl, text): every non-overlapping match, left to right
ReSub(pat, tmpl, text) == ReSubFrom(pat, tmpl, text, 1)

RECURSIVE ReFindAllFrom(_, _, _)
ReFindAllFrom(pat, text, pos) ==
    LET m == ReSearch(pat, text, pos) IN
    IF ~m.ok THEN <<>>
    ELSE <<SubSeq(text, m.start, m.end - 1)>>
         \o ReFindAllFrom(pat, text, IF m.end > m.start THEN m.end ELSE m.start + 1)

\* re.findall(pat, text) of a pattern without groups
ReFindAll(pat, text) == ReFindAllFrom(pat, text, 1)

(***************************************************************************)
(* Python values.  One record shape for all of them, so that any two can   *)
(* be compared: t the type, n/d a number, s a str's text, e the elements   *)
(* of a list or tuple, x and m the class and the message of a raised       *)
(* exception (a result that is no value).  The numbers of                  *)
(* a record and of an expression are Python ints; a division gives the     *)
(* exact fraction.                                                         *)
(***************************************************************************)
Val(t, n, d, s, e, x) == [t |-> t, n |-> n, d |-> d, s |-> s, e |-> e, x |-> x, m |-> ""]

RECURSIVE Gcd(_, _)
Gcd(a, b) == IF b = 0 THEN a ELSE Gcd(b, a % b)

Abs(n) == IF n < 0 THEN -n ELSE n

Sign(n) == IF n < 0 THEN -1 ELSE IF n > 0 THEN 1 ELSE 0

\* the fraction n/d in lowest terms with d > 0; d = 0 gives inf, -inf or nan
Num(n, d) ==
    IF d = 0 THEN Val("num", Sign(n), 0, <<>>, <<>>, "")
    ELSE LET g == Gcd(Abs(n), Abs(d))
             sg == IF d < 0 THEN -1 ELSE 1
         IN Val("num", sg * (n \div g), sg * (d \div g), <<>>, <<>>, "")

PyInt(n) == Num(n, 1)

Inf == Num(1, 0)

NaN == Num(0, 0)

Bool(b) == Val("bool", IF b THEN 1 ELSE 0, 1, <<>>, <<>>, "")

None == Val("none", 0, 1, <<>>, <<>>, "")

Str(s) == Val("str", 0, 1, s, <<>>, "")

List(e) == Val("list", 0, 1, <<>>, e, "")

Tuple(e) == Val("tuple", 0, 1, <<>>, e, "")

\* a raised exception of class x (ValueError, TypeError, SystemExit, ...) with message m
Exc(x, m) == [Val("exc", 0, 1, <<>>, <<>>, x) EXCEPT !.m = m]

IsExc(v) == v.t = "exc"

IsNum(v) == v.t \in {"num", "bool"}

IsSeq(v) == v.t \in {"list", "tuple"}

\* the exception classes that derive from BaseException but not from Exception
BaseOnly == {"SystemExit", "KeyboardInterrupt", "GeneratorExit"}

\* `except Exception` catches v
IsCaught(v) == IsExc(v) /\ v.x \notin BaseOnly

(***************************************************************************)
(* Texts of the words the evaluator writes and reads                       *)
(***************************************************************************)
T_AND == <<"A","N","D">>
T_OR == <<"O","R">>
T_NOT == <<"N","O","T">>
T_and == <<"a","n","d">>
T_or == <<"o","r">>
T_not == <<"n","o","t">>
T_in == <<"i","n">>
T_is == <<"i","s">>
T_if == <<"i","f">>
T_else == <<"e","l","s","e">>
T_for == <<"f","o","r">>
T_None == <<"N","o","n","e">>
T_NULL == <<"N","U","L","L">>
T_True == <<"T","r","u","e">>
T_False == <<"F","a","l","s","e">>
T_COUNT == <<"C","O","U","N","T">>
T_abs == <<"a","b","s">>
T_max == <<"m","a","x">>
T_min == <<"m","i","n">>
T_sum == <<"s","u","m">>
T_len == <<"l","e","n">>
T_any == <<"a","n","y">>
T_all == <<"a","l","l">>
T_exit == <<"e","x","i","t">>
T_item == <<"i","t","e","m">>
T_inf == <<"i","n","f">>
T_nan == <<"n","a","n">>
T_contains == <<"U+5305", "U+542B">>
Sp == <<" ">>

(***************************************************************************)
(* LogicEvaluator._preprocess_schema                                       *)
(***************************************************************************)
WordPattern(w) == <<WordBoundary, Lit(w), WordBoundary>>

\* r"(\w+)\s*包含\s*\[([^\]]+)\]"
contains_pattern ==
    <<Rep(Cls(WordChars), 1, 1), Rep(Cls(Spaces), 0, 0), Lit(T_contains),
      Rep(Cls(Spaces), 0, 0), Lit(<<"[">>), Rep(NotCls({"]"}), 1, 2), Lit(<<"]">>)>>

\* r"any(item in \1 for item in [\2])"
contains_template ==
    <<Lit(T_any \o <<"(">> \o T_item \o Sp \o T_in \o Sp), Grp(1),
      Lit(Sp \o T_for \o Sp \o T_item \o Sp \o T_in \o Sp \o <<"[">>), Grp(2),
      Lit(<<"]", ")">>)>>

\* r"(\w+)\s+in\s+\[([^\]]+)\]"
in_pattern ==
    <<Rep(Cls(WordChars), 1, 1), Rep(Cls(Spaces), 1, 0), Lit(T_in),
      Rep(Cls(Spaces), 1, 0), Lit(<<"[">>), Rep(NotCls({"]"}), 1, 2), Lit(<<"]">>)>>

\* r"\1 in [\2]"
in_template == <<Grp(1), Lit(Sp \o T_in \o Sp \o <<"[">>), Grp(2), Lit(<<"]">>)>>

\* r"COUNT\(([^)]+)\s*(<|>|<=|>=|==)\s*([^)]+)\)"
count_pattern ==
    <<Lit(T_COUNT \o <<"(">>), Rep(NotCls({")"}), 1, 1), Rep(Cls(Spaces), 0, 0),
      Alt(<< <<"<">>, <<">">>, <<"<", "=">>, <<">", "=">>, <<"=", "=">> >>, 2),
      Rep(Cls(Spaces), 0, 0), Rep(NotCls({")"}), 1, 3), Lit(<<")">>)>>

\* f"sum(1 for x in {list_name} if x {op} {value})"
count_template(list_name, op, value) ==
    <<Lit(T_sum \o <<"(", "1", " ">> \o T_for \o <<" ", "x", " ">> \o T_in \o Sp
          \o list_name \o Sp \o T_if \o <<" ", "x", " ">> \o op \o Sp \o value \o <<")">>)>>

\* r"COUNT\(([^)]+)\)"
bare_count_pattern == <<Lit(T_COUNT \o <<"(">>), Rep(NotCls({")"}), 1, 1), Lit(<<")">>)>>

\* r"len([x for x in \1 if x])"
truthy_count_template ==
    <<Lit(T_len \o <<"(", "[", "x", " ">> \o T_for \o <<" ", "x", " ">> \o T_in \o Sp),
      Grp(1), Lit(Sp \o T_if \o <<" ", "x", "]", ")">>)>>

\* r"len(\1)"
len_template == <<Lit(T_len \o <<"(">>), Grp(1), Lit(<<")">>)>>

\* lines 147-158: the first COUNT with a comparison decides the text that
\* replaces every one of them
ConditionalCountRewritten(processed, match) ==
    IF match.ok
    THEN ReSub(count_pattern,
               count_template(Strip(match.caps[1]), match.caps[2], Strip(match.caps[3])),
               processed)
    ELSE processed

\* lines 161-165
BareCountRewritten(processed) ==
    ReSub(bare_count_pattern,
          IF Contains(processed, <<"=", "=">>) THEN truthy_count_template ELSE len_template,
          processed)

\* lines 147-165
CountRewritten(processed) ==
    BareCountRewritten(
        ConditionalCountRewritten(processed, ReSearch(count_pattern, processed, 1)))

_preprocess_schema(schema) ==
    LET p1 == ReSub(WordPattern(T_AND), <<Lit(Sp \o T_and \o Sp)>>, schema)
        p2 == ReSub(WordPattern(T_OR), <<Lit(Sp \o T_or \o Sp)>>, p1)
        p3 == ReSub(WordPattern(T_NOT), <<Lit(Sp \o T_not \o Sp)>>, p2)
        p4 == ReSub(contains_pattern, contains_template, p3)
        p5 == ReSub(in_pattern, in_template, p4)
        p6 == Replace(p5, <<"=", "=", " ">> \o T_NULL, T_is \o Sp \o T_None)
        p7 == Replace(p6, <<"=", "=", " ">> \o T_None, T_is \o Sp \o T_None)
    IN CountRewritten(p7)

(***************************************************************************)
(* LogicEvaluator._substitute_values                                       *)
(* A dict is the sequence of its items [key, val] in insertion order.      *)
(***************************************************************************)
Item(key, val) == [key |-> key, val |-> val]

Keys(dict) == {dict[i].key : i \in 1..Len(dict)}

HasKey(dict, key) == key \in Keys(dict)

\* dict[key], key present
Get(dict, key) == dict[CHOOSE i \in 1..Len(dict) : dict[i].key = key].val

RECURSIVE InsertByLen(_, _)
\* item into a list sorted by falling key length, after the items as long as it
InsertByLen(sorted, item) ==
    IF sorted = <<>> THEN <<item>>
    ELSE IF Len(Head(sorted).key) >= Len(item.key)
         THEN <<Head(sorted)>> \o InsertByLen(Tail(sorted), item)
         ELSE <<item>> \o sorted

RECURSIVE SortedItems(_)
\* sorted(financial_data.keys(), key=len, reverse=True), each key with its value:
\* the sort is stable, keys of one length keep the dict's order
SortedItems(dict) ==
    IF dict = <<>> THEN <<>>
    ELSE InsertByLen(SortedItems(SubSeq(dict, 1, Len(dict) - 1)), dict[Len(dict)])

RECURSIVE Repr(_), ReprItems(_)
\* repr(value); a str without apostrophes goes between apostrophes
Repr(v) ==
    CASE v.t = "bool" -> IF v.n = 1 THEN T_True ELSE T_False
      [] v.t = "none" -> T_None
      [] v.t = "num" -> IF v.d = 0 THEN (IF v.n < 0 THEN <<"-">> ELSE <<>>) \o
                                        (IF v.n = 0 THEN T_nan ELSE T_inf)
                        ELSE IntStr(v.n)
      [] v.t = "str" -> IF Apostrophe \in {v.s[i] : i \in 1..Len(v.s)}
                           /\ Quote \notin {v.s[i] : i \in 1..Len(v.s)}
                        THEN <<Quote>> \o v.s \o <<Quote>>
                        ELSE <<Apostrophe>> \o Replace(v.s, <<Apostrophe>>, <<"\\", Apostrophe>>)
                             \o <<Apostrophe>>
      [] v.t = "list" -> <<"[">> \o ReprItems(v.e) \o <<"]">>
      [] v.t = "tuple" -> <<"(">> \o ReprItems(v.e)
                          \o (IF Len(v.e) = 1 THEN <<",">> ELSE <<>>) \o <<")">>

ReprItems(e) ==
    IF e = <<>> THEN <<>>
    ELSE Repr(Head(e)) \o (IF Len(e) > 1 THEN <<",", " ">> \o ReprItems(Tail(e)) ELSE <<>>)

\* the replacement text of a value that is not None
Replacement(value) ==
    CASE value.t = "bool" -> IF value.n = 1 THEN T_True ELSE T_False
      [] value.t = "str" -> <<Quote>> \o value.s \o <<Quote>>
      [] OTHER -> Repr(value)

RECURSIVE SubstituteKeys(_, _)
\* the loop over sorted_keys on the text
SubstituteKeys(result, items) ==
    IF items = <<>> THEN result
    ELSE LET key == Head(items).key
             value == Head(items).val
         IN SubstituteKeys(
                IF value.t # "none"
                THEN ReSub(WordPattern(key), <<Lit(Replacement(value))>>, result)
                ELSE result,
                Tail(items))

\* the text _substitute_values returns
_substitute_values(schema, data) == SubstituteKeys(schema, SortedItems(data))

\* self._evidence after _substitute_values: every item whose value is not None
RecordedEvidence(data) == SelectSeq(SortedItems(data), LAMBDA it : it.val.t # "none")

(***************************************************************************)
(* LogicEvaluator._has_missing_data, _get_missing_fields                   *)
(***************************************************************************)
\* r'[一-鿿]+'
chinese_pattern == <<Rep(Cls(CJK), 1, 0)>>

\* r'[一-鿿_]+'
field_pattern == <<Rep(Cls(CJK \cup {"_"}), 1, 0)>>

RECURSIVE InStringAtEnd(_, _)
\* the flag in_string after the loop over the characters
InStringAtEnd(text, in_string) ==
    IF text = <<>> THEN in_string
    ELSE InStringAtEnd(Tail(text),
                       IF Head(text) \in {Quote, Apostrophe} THEN ~in_string ELSE in_string)

_has_missing_data(substituted) ==
    ReFindAll(chinese_pattern, substituted) # <<>> /\ ~InStringAtEnd(substituted, FALSE)

\* list(set(missing)), as a set of texts
_get_missing_fields(schema, data) ==
    LET potential_fields == ReFindAll(field_pattern, schema) IN
    {potential_fields[i] : i \in
        {j \in 1..Len(potential_fields) :
            \/ ~HasKey(data, potential_fields[j])
            \/ Get(data, potential_fields[j]).t = "none"}}

(***************************************************************************)
(* ast.parse(expression, mode='eval'): the tokens                          *)
(* A token is [k, s, n]: k its kind (name, num, str, op), s its text (the  *)
(* value of a str literal), n the value of a number.                       *)
(***************************************************************************)
Tok(k, s, n) == [k |-> k, s |-> s, n |-> n]

\* the operators of two characters, tried before those of one
Ops2 == {<<"=", "=">>, <<"!", "=">>, <<"<", "=">>, <<">", "=">>, <<"*", "*">>,
         <<"/", "/">>, <<"<", "<">>, <<">", ">">>}

Ops1 == {"+", "-", "*", "/", "%", "(", ")", "[", "]", ",", "<", ">", "=", ".", ":",
         "~", "|", "&", "^", "@", "{", "}"}

\* the keywords a digit may be followed by without a space
NumTailKeywords == {T_and, T_else, T_for, T_if, T_in, T_is, T_not, T_or}

Keywords == NumTailKeywords \cup {T_True, T_False, T_None,
                                  <<"l","a","m","b","d","a">>, <<"a","w","a","i","t">>}

RECURSIVE StrEnd(_, _, _)
\* the index of the quote q closing a literal whose body starts at i, 0 when unterminated
StrEnd(text, i, q) ==
    IF i > Len(text) THEN 0
    ELSE IF text[i] = q THEN i
    ELSE IF text[i] = "\\" THEN StrEnd(text, i + 2, q)
    ELSE StrEnd(text, i + 1, q)

RECURSIVE Unescape(_)
\* the value of a literal's body: \c stands for c
Unescape(body) ==
    IF body = <<>> THEN <<>>
    ELSE IF Head(body) = "\\" /\ Len(body) >= 2
         THEN <<body[2]>> \o Unescape(SubSeq(body, 3, Len(body)))
         ELSE <<Head(body)>> \o Unescape(Tail(body))

NoTokens == [ok |-> FALSE, toks |-> <<>>]

RECURSIVE TokensFrom(_, _, _)
TokensFrom(text, i, acc) ==
    IF i > Len(text) THEN [ok |-> TRUE, toks |-> acc]
    ELSE LET c == text[i] IN
         IF c \in Spaces THEN TokensFrom(text, i + 1, acc)
         ELSE IF c \in Digits THEN
             LET n == RunLen(text, i, Cls(Digits))
                 ds == SubSeq(text, i, i + n - 1)
                 w == RunLen(text, i + n, Cls(WordChars))
                 tail == SubSeq(text, i + n, i + n + w - 1)
             IN IF (n > 1 /\ ds[1] = "0" /\ ~AllIn(ds, {"0"}))
                   \/ (w > 0 /\ tail \notin NumTailKeywords)
                THEN NoTokens
                ELSE TokensFrom(text, i + n, Append(acc, Tok("num", ds, DigitsVal(ds))))
         ELSE IF c \in WordChars THEN
             LET n == RunLen(text, i, Cls(WordChars)) IN
             TokensFrom(text, i + n, Append(acc, Tok("name", SubSeq(text, i, i + n - 1), 0)))
         ELSE IF c \in {Quote, Apostrophe} THEN
             LET j == StrEnd(text, i + 1, c) IN
             IF j = 0 THEN NoTokens
             ELSE TokensFrom(text, j + 1,
                             Append(acc, Tok("str", Unescape(SubSeq(text, i + 1, j - 1)), 0)))
         ELSE IF i < Len(text) /\ <<c, text[i + 1]>> \in Ops2 THEN
             TokensFrom(text, i + 2, Append(acc, Tok("op", <<c, text[i + 1]>>, 0)))
         ELSE IF c \in Ops1 THEN TokensFrom(text, i + 1, Append(acc, Tok("op", <<c>>, 0)))
         ELSE NoTokens

\* the token list of an expression; a text that starts with a blank is an
\* IndentationError, an empty one a SyntaxError
Tokenize(text) ==
    IF text = <<>> \/ Head(text) \in Spaces THEN NoTokens
    ELSE LET r == TokensFrom(text, 1, <<>>) IN
         IF r.ok /\ r.toks = <<>> THEN NoTokens ELSE r

(***************************************************************************)
(* ast.parse(expression, mode='eval'): the tree                            *)
(* Nodes are records named after the ast classes.  The grammar is the      *)
(* expression grammar of Python without attribute access, subscripts,      *)
(* lambda, keyword arguments, dict and set displays and the bitwise        *)
(* operators, none of which a modelled text contains.                      *)
(***************************************************************************)
Constant(value) == [kind |-> "Constant", value |-> value]

Name(id) == [kind |-> "Name", id |-> id]

ListNode(elts) == [kind |-> "List", elts |-> elts]

TupleNode(elts) == [kind |-> "Tuple", elts |-> elts]

BinOp(left, op, right) == [kind |-> "BinOp", left |-> left, op |-> op, right |-> right]

UnaryOp(op, operand) == [kind |-> "UnaryOp", op |-> op, operand |-> operand]

Compare(left, ops, comparators) ==
    [kind |-> "Compare", left |-> left, ops |-> ops, comparators |-> comparators]

BoolOp(op, values) == [kind |-> "BoolOp", op |-> op, values |-> values]

Call(func, args) == [kind |-> "Call", func |-> func, args |-> args]

IfExp(test, body, orelse) == [kind |-> "IfExp", test |-> test, body |-> body, orelse |-> orelse]

\* GeneratorExp or ListComp with its one comprehension(target, iter, ifs)
Comprehension(kind, elt, target, iter, ifs) ==
    [kind |-> kind, elt |-> elt, target |-> target, iter |-> iter, ifs |-> ifs]

NoParse == [ok |-> FALSE, i |-> 0]

Parsed(node, i) == [ok |-> TRUE, node |-> node, i |-> i]

IsOp(toks, i, s) == i <= Len(toks) /\ toks[i].k = "op" /\ toks[i].s = s

IsKw(toks, i, w) == i <= Len(toks) /\ toks[i].k = "name" /\ toks[i].s = w

\* the comparison operator at token i: its ast class and its length in tokens
CompareOpAt(toks, i) ==
    CASE IsOp(toks, i, <<"<">>) -> [op |-> "Lt", n |-> 1]
      [] IsOp(toks, i, <<">">>) -> [op |-> "Gt", n |-> 1]
      [] IsOp(toks, i, <<"=", "=">>) -> [op |-> "Eq", n |-> 1]
      [] IsOp(toks, i, <<">", "=">>) -> [op |-> "GtE", n |-> 1]
      [] IsOp(toks, i, <<"<", "=">>) -> [op |-> "LtE", n |-> 1]
      [] IsOp(toks, i, <<"!", "=">>) -> [op |-> "NotEq", n |-> 1]
      [] IsKw(toks, i, T_in) -> [op |-> "In", n |-> 1]
      [] IsKw(toks, i, T_not) /\ IsKw(toks, i + 1, T_in) -> [op |-> "NotIn", n |-> 2]
      [] IsKw(toks, i, T_is) /\ IsKw(toks, i + 1, T_not) -> [op |-> "IsNot", n |-> 2]
      [] IsKw(toks, i, T_is) -> [op |-> "Is", n |-> 1]
      [] OTHER -> [op |-> "", n |-> 0]

SumOpAt(toks, i) ==
    CASE IsOp(toks, i, <<"+">>) -> "Add"
      [] IsOp(toks, i, <<"-">>) -> "Sub"
      [] OTHER -> ""

TermOpAt(toks, i) ==
    CASE IsOp(toks, i, <<"*">>) -> "Mult"
      [] IsOp(toks, i, <<"/">>) -> "Div"
      [] IsOp(toks, i, <<"/", "/">>) -> "FloorDiv"
      [] IsOp(toks, i, <<"%">>) -> "Mod"
      [] OTHER -> ""

UnaryOpAt(toks, i) ==
    CASE IsOp(toks, i, <<"-">>) -> "USub"
      [] IsOp(toks, i, <<"+">>) -> "UAdd"
      [] IsOp(toks, i, <<"~">>) -> "Invert"
      [] OTHER -> ""

RECURSIVE Parse(_, _, _, _)
\* The parser: Parse(rule, toks, i, a) reads the grammar rule `rule` from token
\* i on and gives [ok, node, i], i the token after what it read.  a is what
\* the rule has read before i (the rules that end in _rest) or the closing
\* bracket it is to find, <<>> for the rules that need neither.
Parse(rule, toks, i, a) ==
    CASE rule = "expression" ->
            \* disjunction ['if' disjunction 'else' expression]
            LET c == Parse("disjunction", toks, i, <<>>) IN
            IF ~c.ok THEN NoParse
            ELSE IF IsKw(toks, c.i, T_if) THEN
                LET t == Parse("disjunction", toks, c.i + 1, <<>>) IN
                IF ~t.ok \/ ~IsKw(toks, t.i, T_else) THEN NoParse
                ELSE LET e == Parse("expression", toks, t.i + 1, <<>>) IN
                     IF ~e.ok THEN NoParse ELSE Parsed(IfExp(t.node, c.node, e.node), e.i)
            ELSE c
      [] rule = "disjunction" ->
            \* conjunction ('or' conjunction)*
            LET c == Parse("conjunction", toks, i, <<>>) IN
            IF ~c.ok THEN NoParse ELSE Parse("or_rest", toks, c.i, <<c.node>>)
      [] rule = "or_rest" ->
            IF IsKw(toks, i, T_or) THEN
                LET c == Parse("conjunction", toks, i + 1, <<>>) IN
                IF ~c.ok THEN NoParse ELSE Parse("or_rest", toks, c.i, Append(a, c.node))
            ELSE Parsed(IF Len(a) = 1 THEN a[1] ELSE BoolOp("Or", a), i)
      [] rule = "conjunction" ->
            \* inversion ('and' inversion)*
            LET c == Parse("inversion", toks, i, <<>>) IN
            IF ~c.ok THEN NoParse ELSE Parse("and_rest", toks, c.i, <<c.node>>)
      [] rule = "and_rest" ->
            IF IsKw(toks, i, T_and) THEN
                LET c == Parse("inversion", toks, i + 1, <<>>) IN
                IF ~c.ok THEN NoParse ELSE Parse("and_rest", toks, c.i, Append(a, c.node))
            ELSE Parsed(IF Len(a) = 1 THEN a[1] ELSE BoolOp("And", a), i)
      [] rule = "inversion" ->
            \* 'not' inversion | comparison
            IF IsKw(toks, i, T_not) THEN
                LET c == Parse("inversion", toks, i + 1, <<>>) IN
                IF ~c.ok THEN NoParse ELSE Parsed(UnaryOp("Not", c.node), c.i)
            ELSE Parse("comparison", toks, i, <<>>)
      [] rule = "comparison" ->
            \* sum (compare_op sum)*
            LET c == Parse("sum", toks, i, <<>>) IN
            IF ~c.ok THEN NoParse
            ELSE Parse("compare_rest", toks, c.i,
                       [left |-> c.node, ops |-> <<>>, comparators |-> <<>>])
      [] rule = "compare_rest" ->
            LET o == CompareOpAt(toks, i) IN
            IF o.n = 0
            THEN Parsed(IF a.ops = <<>> THEN a.left
                        ELSE Compare(a.left, a.ops, a.comparators), i)
            ELSE LET c == Parse("sum", toks, i + o.n, <<>>) IN
                 IF ~c.ok THEN NoParse
                 ELSE Parse("compare_rest", toks, c.i,
                            [left |-> a.left, ops |-> Append(a.ops, o.op),
                             comparators |-> Append(a.comparators, c.node)])
      [] rule = "sum" ->
            \* term (('+' | '-') term)*
            LET c == Parse("term", toks, i, <<>>) IN
            IF ~c.ok THEN NoParse ELSE Parse("sum_rest", toks, c.i, c.node)
      [] rule = "sum_rest" ->
            LET o == SumOpAt(toks, i) IN
            IF o = "" THEN Parsed(a, i)
            ELSE LET c == Parse("term", toks, i + 1, <<>>) IN
                 IF ~c.ok THEN NoParse
                 ELSE Parse("sum_rest", toks, c.i, BinOp(a, o, c.node))
      [] rule = "term" ->
            \* factor (('*' | '/' | '//' | '%') factor)*
            LET c == Parse("factor", toks, i, <<>>) IN
            IF ~c.ok THEN NoParse ELSE Parse("term_rest", toks, c.i, c.node)
      [] rule = "term_rest" ->
            LET o == TermOpAt(toks, i) IN
            IF o = "" THEN Parsed(a, i)
            ELSE LET c == Parse("factor", toks, i + 1, <<>>) IN
                 IF ~c.ok THEN NoParse
                 ELSE Parse("term_rest", toks, c.i, BinOp(a, o, c.node))
      [] rule = "factor" ->
            \* ('+' | '-' | '~') factor | power
            LET o == UnaryOpAt(toks, i) IN
            IF o = "" THEN Parse("power", toks, i, <<>>)
            ELSE LET c == Parse("factor", toks, i + 1, <<>>) IN
                 IF ~c.ok THEN NoParse ELSE Parsed(UnaryOp(o, c.node), c.i)
      [] rule = "power" ->
            \* primary ['**' factor]
            LET c == Parse("primary", toks, i, <<>>) IN
            IF ~c.ok THEN NoParse
            ELSE IF IsOp(toks, c.i, <<"*", "*">>) THEN
                LET e == Parse("factor", toks, c.i + 1, <<>>) IN
                IF ~e.ok THEN NoParse ELSE Parsed(BinOp(c.node, "Pow", e.node), e.i)
            ELSE c
      [] rule = "primary" ->
            \* atom ('(' arguments ')')*
            LET c == Parse("atom", toks, i, <<>>) IN
            IF ~c.ok THEN NoParse ELSE Parse("trailers", toks, c.i, c.node)
      [] rule = "trailers" ->
            IF IsOp(toks, i, <<"(">>) THEN
                LET d == Parse("display", toks, i + 1,
                               [close |-> <<")">>, kind |-> "GeneratorExp"]) IN
                IF ~d.ok THEN NoParse
                ELSE Parse("trailers", toks, d.i,
                           Call(a, IF d.comp THEN <<d.node>> ELSE d.elts))
            ELSE IF IsOp(toks, i, <<".">>) \/ IsOp(toks, i, <<"[">>) THEN NoParse
            ELSE Parsed(a, i)
      [] rule = "display" ->
            \* the rest of a display after its opening bracket, up to the bracket
            \* a.close: nothing, one comprehension (of class a.kind), or
            \* expressions separated by commas.  [ok, i, comp, node, elts, comma]
            IF IsOp(toks, i, a.close)
            THEN [ok |-> TRUE, i |-> i + 1, comp |-> FALSE, elts |-> <<>>, comma |-> FALSE]
            ELSE LET c == Parse("expression", toks, i, <<>>) IN
                 IF ~c.ok THEN NoParse
                 ELSE IF IsKw(toks, c.i, T_for) THEN
                     IF c.i + 2 <= Len(toks) /\ toks[c.i + 1].k = "name"
                        /\ toks[c.i + 1].s \notin Keywords /\ IsKw(toks, c.i + 2, T_in)
                     THEN LET it == Parse("disjunction", toks, c.i + 3, <<>>) IN
                          IF ~it.ok THEN NoParse
                          ELSE LET fs == Parse("ifs", toks, it.i, <<>>) IN
                               IF ~fs.ok \/ ~IsOp(toks, fs.i, a.close) THEN NoParse
                               ELSE [ok |-> TRUE, i |-> fs.i + 1, comp |-> TRUE,
                                     node |-> Comprehension(a.kind, c.node,
                                                            Name(toks[c.i + 1].s),
                                                            it.node, fs.ifs)]
                     ELSE NoParse
                 ELSE Parse("items", toks, c.i, [close |-> a.close, elts |-> <<c.node>>])
      [] rule = "ifs" ->
            \* ('if' disjunction)*
            IF IsKw(toks, i, T_if) THEN
                LET c == Parse("disjunction", toks, i + 1, <<>>) IN
                IF ~c.ok THEN NoParse ELSE Parse("ifs", toks, c.i, Append(a, c.node))
            ELSE [ok |-> TRUE, i |-> i, ifs |-> a]
      [] rule = "items" ->
            \* (',' expression)* [','] close
            IF IsOp(toks, i, a.close)
            THEN [ok |-> TRUE, i |-> i + 1, comp |-> FALSE, elts |-> a.elts,
                  comma |-> FALSE]
            ELSE IF IsOp(toks, i, <<",">>) THEN
                IF IsOp(toks, i + 1, a.close)
                THEN [ok |-> TRUE, i |-> i + 2, comp |-> FALSE, elts |-> a.elts,
                      comma |-> TRUE]
                ELSE LET c == Parse("expression", toks, i + 1, <<>>) IN
                     IF ~c.ok THEN NoParse
                     ELSE LET r == Parse("items", toks, c.i,
                                         [close |-> a.close,
                                          elts |-> Append(a.elts, c.node)]) IN
                          IF ~r.ok THEN NoParse ELSE [r EXCEPT !.comma = TRUE]
            ELSE NoParse
      [] rule = "strings" ->
            \* STRING+ : adjacent literals are one constant
            IF i <= Len(toks) /\ toks[i].k = "str"
            THEN Parse("strings", toks, i + 1, a \o toks[i].s)
            ELSE Parsed(Constant(Str(a)), i)
      [] rule = "atom" ->
            IF i > Len(toks) THEN NoParse
            ELSE LET tok == toks[i] IN
                 CASE tok.k = "num" -> Parsed(Constant(PyInt(tok.n)), i + 1)
                   [] tok.k = "str" -> Parse("strings", toks, i, <<>>)
                   [] tok.k = "name" ->
                        IF tok.s = T_True THEN Parsed(Constant(Bool(TRUE)), i + 1)
                        ELSE IF tok.s = T_False THEN Parsed(Constant(Bool(FALSE)), i + 1)
                        ELSE IF tok.s = T_None THEN Parsed(Constant(None), i + 1)
                        ELSE IF tok.s \in Keywords THEN NoParse
                        ELSE Parsed(Name(tok.s), i + 1)
                   [] IsOp(toks, i, <<"(">>) ->
                        LET d == Parse("display", toks, i + 1,
                                       [close |-> <<")">>, kind |-> "GeneratorExp"]) IN
                        IF ~d.ok THEN NoParse
                        ELSE IF d.comp THEN Parsed(d.node, d.i)
                        ELSE IF Len(d.elts) = 1 /\ ~d.comma THEN Parsed(d.elts[1], d.i)
                        ELSE Parsed(TupleNode(d.elts), d.i)
                   [] IsOp(toks, i, <<"[">>) ->
                        LET d == Parse("display", toks, i + 1,
                                       [close |-> <<"]">>, kind |-> "ListComp"]) IN
                        IF ~d.ok THEN NoParse
                        ELSE IF d.comp THEN Parsed(d.node, d.i)
                        ELSE Parsed(ListNode(d.elts), d.i)
                   [] OTHER -> NoParse
      [] rule = "top_rest" ->
            \* (',' expression)* [','] at the top level: a tuple without parentheses
            IF i > Len(toks) THEN Parsed(TupleNode(a), i)
            ELSE IF IsOp(toks, i, <<",">>) THEN
                IF i = Len(toks) THEN Parsed(TupleNode(a), i + 1)
                ELSE LET c == Parse("expression", toks, i + 1, <<>>) IN
                     IF ~c.ok THEN NoParse
                     ELSE Parse("top_rest", toks, c.i, Append(a, c.node))
            ELSE NoParse

\* ast.parse(text, mode='eval').body: [ok, node]; ~ok is a SyntaxError
AstParse(text) ==
    LET t == Tokenize(text) IN
    IF ~t.ok THEN NoParse
    ELSE LET c == Parse("expression", t.toks, 1, <<>>) IN
         IF ~c.ok THEN NoParse
         ELSE IF c.i > Len(t.toks) THEN c
         ELSE Parse("top_rest", t.toks, c.i, <<c.node>>)

(***************************************************************************)
(* The operations of Python's values (the operator module and the          *)
(* builtins the evaluator calls).  An operation whose result this model    *)
(* does not give (a str ordering, a fractional power, ...) has no CASE     *)
(* arm: TLC stops if a modelled text ever reaches it.                      *)
(***************************************************************************)
TypeError == Exc("TypeError", "unsupported operand type(s)")

ZeroDivisionError == Exc("ZeroDivisionError", "division by zero")

IsFinite(v) == v.d # 0

IsNaN(v) == v.d = 0 /\ v.n = 0

\* bool(v)
Truthy(v) ==
    CASE v.t \in {"num", "bool"} -> ~(v.n = 0 /\ v.d # 0)
      [] v.t = "none" -> FALSE
      [] v.t = "str" -> v.s # <<>>
      [] v.t \in {"list", "tuple"} -> v.e # <<>>
      [] v.t = "func" -> TRUE

NumNeg(a) == Num(-a.n, a.d)

NumAdd(a, b) ==
    IF a.d = 0 /\ b.d = 0 THEN (IF a.n = b.n THEN Num(a.n, 0) ELSE NaN)
    ELSE Num(a.n * b.d + b.n * a.d, a.d * b.d)

NumMul(a, b) == Num(a.n * b.n, a.d * b.d)

\* a / b, b not zero
NumDiv(a, b) ==
    IF a.d = 0 /\ b.d # 0 THEN Num(a.n * Sign(b.n), 0)
    ELSE Num(a.n * b.d, a.d * b.n)

\* -1, 0, 1 as a is below, equal to, above b; 2 when a nan makes them unordered
NumCmp(a, b) ==
    IF IsNaN(a) \/ IsNaN(b) THEN 2
    ELSE IF a.d = 0 /\ b.d = 0 THEN Sign(a.n - b.n)
    ELSE IF a.d = 0 THEN a.n
    ELSE IF b.d = 0 THEN -b.n
    ELSE Sign(a.n * b.d - b.n * a.d)

NumFloor(a) == a.n \div a.d

\* a % b of finite numbers, b not zero: the sign of b
NumMod(a, b) == NumAdd(a, NumNeg(NumMul(b, PyInt(NumFloor(NumDiv(a, b))))))

RECURSIVE NumPowNat(_, _)
NumPowNat(a, k) == IF k = 0 THEN PyInt(1) ELSE NumMul(a, NumPowNat(a, k - 1))

RECURSIVE PyEq(_, _)
\* a == b
PyEq(a, b) ==
    CASE IsNum(a) /\ IsNum(b) -> NumCmp(a, b) = 0
      [] a.t = "str" /\ b.t = "str" -> a.s = b.s
      [] a.t = "none" /\ b.t = "none" -> TRUE
      [] IsSeq(a) /\ a.t = b.t ->
            /\ Len(a.e) = Len(b.e)
            /\ \A i \in 1..Len(a.e) : PyEq(a.e[i], b.e[i])
      [] OTHER -> FALSE

\* a is b: the identity of None, True, False and the small ints CPython shares
PyIs(a, b) ==
    CASE a.t = "none" \/ b.t = "none" -> a.t = b.t
      [] a.t = "bool" \/ b.t = "bool" -> a.t = b.t /\ a.n = b.n
      [] a.t = "num" /\ b.t = "num" /\ a.d = 1 /\ b.d = 1
         /\ a.n \in -5..256 /\ b.n \in -5..256 -> a.n = b.n
      [] a.t # b.t -> FALSE

\* the rich comparisons operator.gt, lt, ge, le, eq, ne: a bool, or a TypeError
\* (the order of two texts or of two lists is left undefined: no rule of the
\* rulebook orders them)
RichCompare(op, a, b) ==
    CASE op = "Eq" -> Bool(PyEq(a, b))
      [] op = "NotEq" -> Bool(~PyEq(a, b))
      [] IsNum(a) /\ IsNum(b) ->
            LET c == NumCmp(a, b) IN
            Bool(CASE op = "Gt" -> c = 1
                   [] op = "Lt" -> c = -1
                   [] op = "GtE" -> c \in {0, 1}
                   [] op = "LtE" -> c \in {0, -1})
      [] a.t # b.t \/ a.t = "none" -> TypeError

\* item in container
PyIn(item, container) ==
    CASE IsSeq(container) -> Bool(\E i \in 1..Len(container.e) : PyEq(item, container.e[i]))
      [] container.t = "str" ->
            IF item.t = "str" THEN Bool(item.s = <<>> \/ Contains(container.s, item.s))
            ELSE TypeError
      [] OTHER -> TypeError

RECURSIVE RepeatSeq(_, _)
RepeatSeq(q, k) == IF k <= 0 THEN <<>> ELSE q \o RepeatSeq(q, k - 1)

\* a str, list or tuple k times
Repeated(v, k) == [v EXCEPT !.s = RepeatSeq(v.s, k), !.e = RepeatSeq(v.e, k)]

\* operator.add, sub, mul, truediv, mod, pow on values
BinaryOperator(op, a, b) ==
    CASE op = "Add" /\ IsNum(a) /\ IsNum(b) -> NumAdd(a, b)
      [] op = "Add" /\ a.t = "str" /\ b.t = "str" -> Str(a.s \o b.s)
      [] op = "Add" /\ IsSeq(a) /\ a.t = b.t -> [a EXCEPT !.e = a.e \o b.e]
      [] op = "Add" -> TypeError
      [] op = "Sub" /\ IsNum(a) /\ IsNum(b) -> NumAdd(a, NumNeg(b))
      [] op = "Sub" -> TypeError
      [] op = "Mult" /\ IsNum(a) /\ IsNum(b) -> NumMul(a, b)
      [] op = "Mult" /\ ~(IsNum(a) \/ IsNum(b)) -> TypeError
      [] op = "Mult" /\ (a.t = "none" \/ b.t = "none") -> TypeError
      [] op = "Mult" /\ IsNum(a) /\ a.d = 1 /\ b.t \in {"str", "list", "tuple"} ->
            Repeated(b, a.n)
      [] op = "Mult" /\ IsNum(b) /\ b.d = 1 /\ a.t \in {"str", "list", "tuple"} ->
            Repeated(a, b.n)
      [] op = "Mult" -> TypeError
      [] op = "Div" /\ IsNum(a) /\ IsNum(b) ->
            IF b.n = 0 /\ b.d # 0 THEN ZeroDivisionError ELSE NumDiv(a, b)
      [] op = "Div" -> TypeError
      [] op = "FloorDiv" /\ IsNum(a) /\ IsNum(b) /\ IsFinite(a) /\ IsFinite(b) ->
            IF b.n = 0 THEN ZeroDivisionError ELSE PyInt(NumFloor(NumDiv(a, b)))
      [] op = "Mod" /\ IsNum(a) /\ IsNum(b) /\ IsFinite(a) /\ IsFinite(b) ->
            IF b.n = 0 THEN ZeroDivisionError ELSE NumMod(a, b)
      [] op = "Mod" /\ ~(IsNum(a) /\ IsNum(b)) /\ a.t # "str" -> TypeError
      [] op = "Mod" /\ a.t = "str" /\ ~Contains(a.s, <<"%">>)
                    /\ ~(b.t = "tuple" /\ b.e = <<>>) -> TypeError
      [] op = "Pow" /\ IsNum(a) /\ IsNum(b) /\ IsFinite(a) /\ b.d = 1 ->
            IF b.n >= 0 THEN NumPowNat(a, b.n)
            ELSE IF a.n = 0 THEN ZeroDivisionError
            ELSE NumPowNat(NumDiv(PyInt(1), a), -b.n)
      [] op = "Pow" /\ ~(IsNum(a) /\ IsNum(b)) -> TypeError

\* operator.neg, pos, not_, invert
UnaryOperator(op, a) ==
    CASE op = "Not" -> Bool(~Truthy(a))
      [] op = "USub" -> IF IsNum(a) THEN NumNeg(a) ELSE TypeError
      [] op = "UAdd" -> IF IsNum(a) THEN Num(a.n, a.d) ELSE TypeError
      [] op = "Invert" -> IF IsNum(a) /\ a.d = 1 THEN PyInt(-a.n - 1) ELSE TypeError

\* iter(v) as the list of its items: [ok, items]
Iterate(v) ==
    CASE IsSeq(v) -> [ok |-> TRUE, items |-> v.e]
      [] v.t = "str" -> [ok |-> TRUE, items |-> [i \in 1..Len(v.s) |-> Str(<<v.s[i]>>)]]
      [] OTHER -> [ok |-> FALSE, items |-> <<>>]

RECURSIVE NumSum(_, _)
NumSum(items, start) ==
    IF items = <<>> THEN start
    ELSE IF ~(IsNum(start) /\ IsNum(Head(items))) THEN TypeError
    ELSE NumSum(Tail(items), NumAdd(start, Head(items)))

RECURSIVE Extreme(_, _, _)
\* max (op Gt) or min (op Lt) of numbers, the first of equal ones
Extreme(op, items, best) ==
    IF items = <<>> THEN best
    ELSE Extreme(op, Tail(items),
                 IF RichCompare(op, Head(items), best).n = 1 THEN Head(items) ELSE best)

AllNum(items) == \A i \in 1..Len(items) : IsNum(items[i])

MaxMin(op, args) ==
    LET it == IF Len(args) = 1 THEN Iterate(args[1]) ELSE [ok |-> TRUE, items |-> args] IN
    CASE args = <<>> \/ ~it.ok -> TypeError
      [] it.items = <<>> -> Exc("ValueError", "arg is an empty sequence")
      [] AllNum(it.items) -> Extreme(op, Tail(it.items), Head(it.items))
      [] \E i, j \in 1..Len(it.items) : IsNum(it.items[i]) /\ ~IsNum(it.items[j]) -> TypeError

\* the functions of SAFE_FUNCTIONS other than COUNT, which are Python's builtins
Builtin(name, args) ==
    CASE name = T_abs ->
            IF Len(args) = 1 /\ IsNum(args[1]) THEN Num(Abs(args[1].n), args[1].d)
            ELSE TypeError
      [] name = T_max -> MaxMin("Gt", args)
      [] name = T_min -> MaxMin("Lt", args)
      [] name = T_sum ->
            IF Len(args) \in {1, 2} /\ Iterate(args[1]).ok
            THEN NumSum(Iterate(args[1]).items, IF Len(args) = 2 THEN args[2] ELSE PyInt(0))
            ELSE TypeError
      [] name = T_len ->
            IF Len(args) = 1 /\ Iterate(args[1]).ok THEN PyInt(Len(Iterate(args[1]).items))
            ELSE TypeError

\* lambda x: sum(1 for item in x if item) if isinstance(x, (list, tuple)) else (1 if x else 0)
COUNT(args) ==
    IF Len(args) # 1 THEN TypeError
    ELSE IF IsSeq(args[1])
         THEN PyInt(Cardinality({i \in 1..Len(args[1].e) : Truthy(args[1].e[i])}))
         ELSE PyInt(IF Truthy(args[1]) THEN 1 ELSE 0)

\* float(text) of a str: an optional sign before a run of digits, inf or nan
FloatOfText(text) ==
    LET t == Strip(text)
        signed == t # <<>> /\ Head(t) \in {"+", "-"}
        body == IF signed THEN Tail(t) ELSE t
        sg == IF signed /\ Head(t) = "-" THEN -1 ELSE 1
    IN CASE body # <<>> /\ AllIn(body, Digits) -> PyInt(sg * DigitsVal(body))
         [] body = T_inf -> Num(sg, 0)
         [] body = T_nan -> NaN
         [] body = <<>> \/ ~AllIn(body, Digits \cup {".", "_", "e", "E"}) ->
               Exc("ValueError", "could not convert string to float")

\* float(v)
Float(v) ==
    CASE IsExc(v) -> v
      [] IsNum(v) -> Num(v.n, v.d)
      [] v.t = "str" -> FloatOfText(v.s)
      [] OTHER -> TypeError

(***************************************************************************)
(* LogicEvaluator._eval_node: the whitelisted tree walk.  The result is a  *)
(* value, or the exception the walk raises.                                *)
(***************************************************************************)
\* the binary operator classes that are keys of SAFE_OPERATORS
SAFE_OPERATORS == {"Add", "Sub", "Mult", "Div", "Mod", "Pow"}

\* the unary operator classes that are keys of SAFE_OPERATORS
SAFE_UNARY_OPERATORS == {"USub", "UAdd", "Not"}

\* the comparison classes that are keys of SAFE_OPERATORS
SAFE_COMPARISONS == {"Gt", "Lt", "GtE", "LtE", "Eq", "NotEq"}

SAFE_FUNCTIONS == {T_abs, T_max, T_min, T_sum, T_len, T_COUNT}

ValueError(m) == Exc("ValueError", m)

\* one step of the loop over zip(node.ops, node.comparators): a bool or an exception
CompareStep(op, left, right) ==
    CASE op \in SAFE_COMPARISONS -> RichCompare(op, left, right)
      [] op = "In" -> PyIn(left, right)
      [] op = "NotIn" -> LET r == PyIn(left, right) IN IF IsExc(r) THEN r ELSE Bool(r.n = 0)
      [] op = "Is" -> Bool(PyIs(left, right))
      [] op = "IsNot" -> Bool(~PyIs(left, right))
      [] OTHER -> ValueError("Unsupported comparison")

\* the BinOp branch without its test for a zero divisor
ApplyOperator_unguarded(op, left, right) == BinaryOperator(op, left, right)

\* the BinOp branch once op is found: a division by zero gives float('inf'),
\* anything else is op(left, right)
ApplyOperator(op, left, right) ==
    IF op = "Div" /\ PyEq(right, PyInt(0)) THEN Inf ELSE BinaryOperator(op, left, right)

RECURSIVE _eval_node(_), EvalElts(_, _), EvalCompare(_, _, _, _), EvalAll(_), EvalAny(_),
          EvalElt(_, _, _)

_eval_node(node) ==
    CASE node.kind = "Constant" -> node.value
      [] node.kind = "List" -> EvalElts(node.elts, <<>>)
      [] node.kind = "Tuple" ->
            LET r == EvalElts(node.elts, <<>>) IN IF IsExc(r) THEN r ELSE Tuple(r.e)
      [] node.kind = "BinOp" ->
            LET left == _eval_node(node.left) IN
            IF IsExc(left) THEN left
            ELSE LET right == _eval_node(node.right) IN
                 IF IsExc(right) THEN right
                 ELSE IF node.op \in SAFE_OPERATORS
                      THEN ApplyOperator(node.op, left, right)
                      ELSE ValueError("Unsupported operator")
      [] node.kind = "UnaryOp" ->
            LET operand == _eval_node(node.operand) IN
            IF IsExc(operand) THEN operand
            ELSE IF node.op \in SAFE_UNARY_OPERATORS THEN UnaryOperator(node.op, operand)
            ELSE ValueError("Unsupported unary operator")
      [] node.kind = "Compare" ->
            LET left == _eval_node(node.left) IN
            IF IsExc(left) THEN left
            ELSE EvalCompare(left, node.ops, node.comparators, 1)
      [] node.kind = "BoolOp" ->
            IF node.op = "And" THEN EvalAll(node.values) ELSE EvalAny(node.values)
      [] node.kind = "Call" ->
            IF node.func.kind = "Name" /\ node.func.id \in SAFE_FUNCTIONS
            THEN LET args == EvalElts(node.args, <<>>) IN
                 IF IsExc(args) THEN args
                 ELSE IF node.func.id = T_COUNT THEN COUNT(args.e)
                 ELSE Builtin(node.func.id, args.e)
            ELSE ValueError("Unsupported function")
      [] node.kind = "Name" -> ValueError("Unknown name")
      [] node.kind = "IfExp" ->
            LET test == _eval_node(node.test) IN
            IF IsExc(test) THEN test
            ELSE IF Truthy(test) THEN _eval_node(node.body) ELSE _eval_node(node.orelse)
      [] node.kind = "GeneratorExp" ->
            LET iter_val == _eval_node(node.iter) IN
            IF IsExc(iter_val) THEN iter_val
            ELSE IF ~Iterate(iter_val).ok THEN TypeError
            ELSE EvalElt(node.elt, Len(Iterate(iter_val).items), <<>>)
      [] OTHER -> ValueError("Unsupported AST node")

\* [self._eval_node(el) for el in elts]: the list, or the first exception
EvalElts(elts, acc) ==
    IF elts = <<>> THEN List(acc)
    ELSE LET v == _eval_node(Head(elts)) IN
         IF IsExc(v) THEN v ELSE EvalElts(Tail(elts), Append(acc, v))

\* the loop of the Compare branch from the k-th operator on
EvalCompare(left, ops, comparators, k) ==
    IF k > Len(ops) THEN Bool(TRUE)
    ELSE LET right == _eval_node(comparators[k]) IN
         IF IsExc(right) THEN right
         ELSE LET r == CompareStep(ops[k], left, right) IN
              IF IsExc(r) THEN r
              ELSE IF ~Truthy(r) THEN Bool(FALSE)
              ELSE EvalCompare(right, ops, comparators, k + 1)

\* all(self._eval_node(v) for v in values): stops at the first falsy value
EvalAll(values) ==
    IF values = <<>> THEN Bool(TRUE)
    ELSE LET v == _eval_node(Head(values)) IN
         IF IsExc(v) THEN v
         ELSE IF ~Truthy(v) THEN Bool(FALSE) ELSE EvalAll(Tail(values))

\* any(self._eval_node(v) for v in values): stops at the first truthy value
EvalAny(values) ==
    IF values = <<>> THEN Bool(FALSE)
    ELSE LET v == _eval_node(Head(values)) IN
         IF IsExc(v) THEN v
         ELSE IF Truthy(v) THEN Bool(TRUE) ELSE EvalAny(Tail(values))

\* the loop of the GeneratorExp branch: node.elt once per item, the ifs never read
EvalElt(elt, n, result) ==
    IF n = 0 THEN List(result)
    ELSE LET v == _eval_node(elt) IN
         IF IsExc(v) THEN v ELSE EvalElt(elt, n - 1, Append(result, v))

(***************************************************************************)
(* LogicEvaluator._simple_eval, _safe_eval                                 *)
(***************************************************************************)
\* [' >= ', ' <= ', ' > ', ' < ', ' == ', ' != '] with the comparison of each
simple_ops ==
    << [text |-> <<" ", ">", "=", " ">>, op |-> "GtE"],
       [text |-> <<" ", "<", "=", " ">>, op |-> "LtE"],
       [text |-> <<" ", ">", " ">>, op |-> "Gt"],
       [text |-> <<" ", "<", " ">>, op |-> "Lt"],
       [text |-> <<" ", "=", "=", " ">>, op |-> "Eq"],
       [text |-> <<" ", "!", "=", " ">>, op |-> "NotEq"] >>

RECURSIVE SimpleEvalFrom(_, _)
\* the loop over the operators from the k-th on
SimpleEvalFrom(expr, k) ==
    IF k > Len(simple_ops) THEN Bool(FALSE)
    ELSE LET parts == Split(expr, simple_ops[k].text) IN
         IF Contains(expr, simple_ops[k].text) /\ Len(parts) = 2
         THEN LET left == FloatOfText(parts[1])
                  right == FloatOfText(parts[2])
              IN IF IsExc(left) \/ IsExc(right) THEN Bool(FALSE)
                 ELSE RichCompare(simple_ops[k].op, left, right)
         ELSE SimpleEvalFrom(expr, k + 1)

_simple_eval(expression) == SimpleEvalFrom(JoinSplit(expression), 1)

_safe_eval(expression) ==
    LET tree == AstParse(expression) IN
    IF tree.ok THEN _eval_node(tree.node) ELSE _simple_eval(expression)

(***************************************************************************)
(* The builtin eval(), which _extract_calculated_value calls on a piece of *)
(* the substituted text: Python's own evaluation of the same trees, every  *)
(* builtin in reach and nothing whitelisted.  A generator is the value     *)
(* "gen" whose items are what it yields, the last one the exception that   *)
(* ends it when an item raises.                                            *)
(***************************************************************************)
\* the builtins the modelled texts name
PyBuiltins == {T_abs, T_max, T_min, T_sum, T_len, T_any, T_all, T_exit}

Func(name) == Val("func", 0, 1, name, <<>>, "")

Gen(items) == Val("gen", 0, 1, <<>>, items, "")

NameError == Exc("NameError", "name is not defined")

FirstExc(items) == items[CHOOSE i \in 1..Len(items) : IsExc(items[i]) /\ \A j \in 1..(i - 1) : ~IsExc(items[j])]

\* a generator read to its end: the list of its items or the exception it raised
Drained(v) ==
    IF v.t # "gen" THEN v
    ELSE IF \E i \in 1..Len(v.e) : IsExc(v.e[i]) THEN FirstExc(v.e)
    ELSE List(v.e)

RECURSIVE AnyAll(_, _)
\* any (stop TRUE) or all (stop FALSE) over the items, in order
AnyAll(stop, items) ==
    IF items = <<>> THEN Bool(~stop)
    ELSE IF IsExc(Head(items)) THEN Head(items)
    ELSE IF Truthy(Head(items)) = stop THEN Bool(stop)
    ELSE AnyAll(stop, Tail(items))

\* a call of the builtin `name`
CallBuiltin(name, args) ==
    CASE name = T_exit -> Exc("SystemExit", "")
      [] name \in {T_any, T_all} ->
            IF Len(args) # 1 THEN TypeError
            ELSE IF args[1].t = "gen" THEN AnyAll(name = T_any, args[1].e)
            ELSE IF Iterate(args[1]).ok THEN AnyAll(name = T_any, Iterate(args[1]).items)
            ELSE TypeError
      [] name \in {T_abs, T_len} ->
            IF \E i \in 1..Len(args) : args[i].t = "gen" THEN TypeError
            ELSE Builtin(name, args)
      [] name \in {T_sum, T_max, T_min} ->
            IF args # <<>> /\ IsExc(Drained(args[1])) THEN Drained(args[1])
            ELSE Builtin(name, [i \in 1..Len(args) |-> Drained(args[i])])

RECURSIVE BuiltinEval(_, _), PyElts(_, _, _), PyCompare(_, _, _, _, _), PyBoolOp(_, _, _),
          PyComprehension(_, _, _, _), PyIfs(_, _)

\* the value of a tree with the comprehension variables env
BuiltinEval(node, env) ==
    CASE node.kind = "Constant" -> node.value
      [] node.kind = "List" -> PyElts(node.elts, env, <<>>)
      [] node.kind = "Tuple" ->
            LET r == PyElts(node.elts, env, <<>>) IN IF IsExc(r) THEN r ELSE Tuple(r.e)
      [] node.kind = "BinOp" ->
            LET left == BuiltinEval(node.left, env) IN
            IF IsExc(left) THEN left
            ELSE LET right == BuiltinEval(node.right, env) IN
                 IF IsExc(right) THEN right ELSE BinaryOperator(node.op, left, right)
      [] node.kind = "UnaryOp" ->
            LET operand == BuiltinEval(node.operand, env) IN
            IF IsExc(operand) THEN operand ELSE UnaryOperator(node.op, operand)
      [] node.kind = "Compare" ->
            LET left == BuiltinEval(node.left, env) IN
            IF IsExc(left) THEN left
            ELSE PyCompare(left, node.ops, node.comparators, 1, env)
      [] node.kind = "BoolOp" -> PyBoolOp(node.op = "Or", node.values, env)
      [] node.kind = "Call" ->
            LET func == BuiltinEval(node.func, env) IN
            IF IsExc(func) THEN func
            ELSE LET args == PyElts(node.args, env, <<>>) IN
                 IF IsExc(args) THEN args
                 ELSE IF func.t = "func" THEN CallBuiltin(func.s, args.e)
                 ELSE TypeError
      [] node.kind = "Name" ->
            IF HasKey(env, node.id) THEN Get(env, node.id)
            ELSE IF node.id \in PyBuiltins THEN Func(node.id)
            ELSE NameError
      [] node.kind = "IfExp" ->
            LET test == BuiltinEval(node.test, env) IN
            IF IsExc(test) THEN test
            ELSE IF Truthy(test) THEN BuiltinEval(node.body, env)
            ELSE BuiltinEval(node.orelse, env)
      [] node.kind \in {"GeneratorExp", "ListComp"} ->
            LET iter_val == BuiltinEval(node.iter, env) IN
            IF IsExc(iter_val) THEN iter_val
            ELSE IF ~Iterate(iter_val).ok THEN TypeError
            ELSE LET g == PyComprehension(node, Iterate(iter_val).items, env, <<>>) IN
                 IF node.kind = "ListComp" THEN Drained(g) ELSE g

PyElts(elts, env, acc) ==
    IF elts = <<>> THEN List(acc)
    ELSE LET v == BuiltinEval(Head(elts), env) IN
         IF IsExc(v) THEN v ELSE PyElts(Tail(elts), env, Append(acc, v))

PyCompare(left, ops, comparators, k, env) ==
    IF k > Len(ops) THEN Bool(TRUE)
    ELSE LET right == BuiltinEval(comparators[k], env) IN
         IF IsExc(right) THEN right
         ELSE LET r == CompareStep(ops[k], left, right) IN
              IF IsExc(r) THEN r
              ELSE IF ~Truthy(r) THEN Bool(FALSE)
              ELSE PyCompare(right, ops, comparators, k + 1, env)

\* `or` gives its first truthy operand, `and` its first falsy one, else the last
PyBoolOp(isOr, values, env) ==
    LET v == BuiltinEval(Head(values), env) IN
    IF IsExc(v) \/ Len(values) = 1 \/ Truthy(v) = isOr THEN v
    ELSE PyBoolOp(isOr, Tail(values), env)

\* the conditions of a comprehension on one item: a bool or an exception
PyIfs(ifs, env) ==
    IF ifs = <<>> THEN Bool(TRUE)
    ELSE LET c == BuiltinEval(Head(ifs), env) IN
         IF IsExc(c) THEN c
         ELSE IF ~Truthy(c) THEN Bool(FALSE) ELSE PyIfs(Tail(ifs), env)

PyComprehension(node, items, env, acc) ==
    IF items = <<>> THEN Gen(acc)
    ELSE LET bound == <<Item(node.target.id, Head(items))>>
                      \o SelectSeq(env, LAMBDA it : it.key # node.target.id)
             keep == PyIfs(node.ifs, bound)
         IN IF IsExc(keep) THEN Gen(Append(acc, keep))
            ELSE IF ~Truthy(keep) THEN PyComprehension(node, Tail(items), env, acc)
            ELSE LET v == BuiltinEval(node.elt, bound) IN
                 IF IsExc(v) THEN Gen(Append(acc, v))
                 ELSE PyComprehension(node, Tail(items), env, Append(acc, v))

\* eval(text) with the caller's local variables: leading blanks are dropped, a text
\* that does not parse is a SyntaxError
eval(text, locals) ==
    LET tree == AstParse(LStrip(text)) IN
    IF tree.ok THEN BuiltinEval(tree.node, locals) ELSE Exc("SyntaxError", "invalid syntax")

(***************************************************************************)
(* LogicEvaluator._extract_calculated_value, _extract_threshold_value      *)
(***************************************************************************)
\* [' > ', ' < ', ' >= ', ' <= ', ' == ']
calculated_ops ==
    << <<" ", ">", " ">>, <<" ", "<", " ">>, <<" ", ">", "=", " ">>,
       <<" ", "<", "=", " ">>, <<" ", "=", "=", " ">> >>

\* expression.split(op)[0].strip()
left_side(expression, op) == Strip(Split(expression, op)[1])

RECURSIVE ExtractFrom(_, _, _)
\* the loop from the k-th operator on: [value, calls], value the float returned, None,
\* or the exception that `except Exception` lets through; calls the texts given to eval
ExtractFrom(expression, k, calls) ==
    IF k > Len(calculated_ops) THEN [value |-> None, calls |-> calls]
    ELSE IF Contains(expression, calculated_ops[k])
    THEN LET text == left_side(expression, calculated_ops[k])
             r == Float(eval(text, <<Item(<<"e","x","p","r","e","s","s","i","o","n">>,
                                          Str(expression)),
                                     Item(<<"o","p">>, Str(calculated_ops[k])),
                                     Item(<<"l","e","f","t","_","s","i","d","e">>,
                                          Str(text))>>))
         IN IF IsCaught(r) THEN ExtractFrom(expression, k + 1, Append(calls, text))
            ELSE [value |-> r, calls |-> Append(calls, text)]
    ELSE ExtractFrom(expression, k + 1, calls)

_extract_calculated_value(expression) == ExtractFrom(expression, 1, <<>>)

\* r'[><=!]+\s*([0-9.]+)'
threshold_pattern ==
    <<Rep(Cls({">", "<", "=", "!"}), 1, 0), Rep(Cls(Spaces), 0, 0),
      Rep(Cls(Digits \cup {"."}), 1, 1)>>

_extract_threshold_value(expression) ==
    LET match == ReSearch(threshold_pattern, expression, 1) IN
    IF match.ok
    THEN LET r == FloatOfText(match.caps[1]) IN IF IsExc(r) THEN None ELSE r
    ELSE None

(***************************************************************************)
(* LogicEvaluator.evaluate                                                 *)
(* What the caller gets: the result dict (returned), with flags for the    *)
(* keys only some of the dicts have, or the exception that escaped         *)
(* (raised).  error is the message, NoError for None.                      *)
(***************************************************************************)
NoError == "<None>"

Outcome(violation, evidence, error) ==
    [returned |-> TRUE, raised |-> "", violation |-> violation, evidence |-> evidence,
     error |-> error, has_values |-> FALSE, calculated_value |-> None,
     threshold_value |-> None, has_missing_fields |-> FALSE, missing_fields |-> {}]

\* no call has ended yet
NoOutcome == [Outcome(FALSE, <<>>, NoError) EXCEPT !.returned = FALSE]

\* the exception leaves evaluate
Raised(x) == [NoOutcome EXCEPT !.raised = x]

\* the dict of lines 90-95
InsufficientData(evidence, missing_fields) ==
    [Outcome(FALSE, evidence, "Insufficient data for evaluation")
        EXCEPT !.has_missing_fields = TRUE, !.missing_fields = missing_fields]

\* the dict of lines 100-106
Evaluated(result, evidence, calculated_value, threshold_value) ==
    [Outcome(Truthy(result), evidence, NoError)
        EXCEPT !.has_values = TRUE, !.calculated_value = calculated_value,
               !.threshold_value = threshold_value]

\* a dict of lines 110-114 that reports the violation with the error
Failed_violating(evidence, e) == Outcome(TRUE, evidence, e.m)

\* the dict of lines 110-114
Failed(evidence, e) == Outcome(FALSE, evidence, e.m)

\* how a call ended, with the texts it gave to eval()
End(out, calls) == [outcome |-> out, calls |-> calls]

\* lines 100-106 with the calculated value computed, or the exception that
\* left _extract_calculated_value
Success(schema, evidence, result, calc) ==
    IF IsExc(calc.value) THEN End(Raised(calc.value.x), calc.calls)
    ELSE End(Evaluated(result, evidence, calc.value, _extract_threshold_value(schema)),
             calc.calls)

\* lines 98-114 with the result of _safe_eval: a value, or the exception it raised
AfterSafeEval(schema, substituted, evidence, result) ==
    IF IsCaught(result) THEN End(Failed(evidence, result), <<>>)
    ELSE IF IsExc(result) THEN End(Raised(result.x), <<>>)
    ELSE Success(schema, evidence, result, _extract_calculated_value(substituted))

\* lines 89-114
AfterBinding(schema, data, processed, substituted, evidence) ==
    IF _has_missing_data(substituted)
    THEN End(InsufficientData(evidence, _get_missing_fields(processed, data)), <<>>)
    ELSE AfterSafeEval(schema, substituted, evidence, _safe_eval(substituted))

\* the call with its locals: [outcome, evidence, calls, frame]
Ended(end, processed, substituted, evidence) ==
    [outcome |-> end.outcome, evidence |-> evidence, calls |-> end.calls,
     frame |-> [processed |-> processed, substituted |-> substituted]]

\* lines 86-114
AfterSubstitution(schema, data, processed, substituted, evidence) ==
    Ended(AfterBinding(schema, data, processed, substituted, evidence),
          processed, substituted, evidence)

\* lines 84-114
AfterPreprocess(schema, data, processed) ==
    AfterSubstitution(schema, data, processed, _substitute_values(processed, data),
                      RecordedEvidence(data))

\* the call evaluate(logic_schema, financial_data): how it ends, self._evidence,
\* the texts given to eval() and the locals when it ends
evaluate(schema, data) == AfterPreprocess(schema, data, _preprocess_schema(schema))

(***************************************************************************)
(* Rule expressions                                                        *)
(* A rule of the arithmetic language is written as a form, the tree of the *)
(* expression its author means, and Render gives the text of the rule as   *)
(* the rulebook holds it.                                                  *)
(***************************************************************************)
\* the largest magnitude of a number bound to a field
MaxVal == 2

\* the largest magnitude of the threshold of a ratio rule
MaxThreshold == 1

\* a field with a name of ideographs and one with an ASCII name, both numeric;
\* a text field and a list field
F_ratio == <<"U+5B57", "U+6BB5">>
F_debt == <<"d", "e", "b", "t">>
F_sector == <<"U+884C">>
F_items == <<"U+5217">>

Field(name) == [k |-> "field", name |-> name]
Number(n) == [k |-> "number", n |-> n]
Arith(op, l, r) == [k |-> "arith", op |-> op, l |-> l, r |-> r]
AbsOf(x) == [k |-> "abs", x |-> x]
Paren(x) == [k |-> "paren", x |-> x]
Comparison(op, l, r) == [k |-> "compare", op |-> op, l |-> l, r |-> r]
AndOf(l, r) == [k |-> "and", l |-> l, r |-> r]
OrOf(l, r) == [k |-> "or", l |-> l, r |-> r]
NotOf(x) == [k |-> "not", x |-> x]
NoForm == [k |-> "none"]

\* the text of an operator of a form
OpText(op) ==
    CASE op = "GtE" -> <<">", "=">>
      [] op = "LtE" -> <<"<", "=">>
      [] op = "Eq" -> <<"=", "=">>
      [] op = "NotEq" -> <<"!", "=">>
      [] op = "Gt" -> <<">">>
      [] op = "Lt" -> <<"<">>
      [] op = "Add" -> <<"+">>
      [] op = "Sub" -> <<"-">>
      [] op = "Mult" -> <<"*">>
      [] op = "Div" -> <<"/">>

RECURSIVE Render(_)
\* the rule text of a form, in the spelling of the rulebook (AND, OR, NOT)
Render(f) ==
    CASE f.k = "field" -> f.name
      [] f.k = "number" -> IntStr(f.n)
      [] f.k \in {"arith", "compare"} -> Render(f.l) \o Sp \o OpText(f.op) \o Sp \o Render(f.r)
      [] f.k = "abs" -> T_abs \o <<"(">> \o Render(f.x) \o <<")">>
      [] f.k = "paren" -> <<"(">> \o Render(f.x) \o <<")">>
      [] f.k = "and" -> Render(f.l) \o Sp \o T_AND \o Sp \o Render(f.r)
      [] f.k = "or" -> Render(f.l) \o Sp \o T_OR \o Sp \o Render(f.r)
      [] f.k = "not" -> T_NOT \o Sp \o Render(f.x)

RECURSIVE FormFields(_)
\* the fields a form refers to
FormFields(f) ==
    CASE f.k = "field" -> {f.name}
      [] f.k = "number" -> {}
      [] f.k \in {"arith", "compare", "and", "or"} -> FormFields(f.l) \cup FormFields(f.r)
      [] f.k \in {"abs", "paren", "not"} -> FormFields(f.x)

\* a rule: its text, its family, its form when it is of the arithmetic language,
\* and the fields it refers to with the type its author expects of each
Rule(text, family, form, fields) ==
    [text |-> text, family |-> family, form |-> form, fields |-> fields]

Typed(name, t) == [name |-> name, t |-> t]

NumericRule(form) ==
    Rule(Render(form), "numeric", form, {Typed(n, "num") : n \in FormFields(form)})

ratio == Field(F_ratio)
debt == Field(F_debt)

ComparisonOps == <<"Gt", "Lt", "GtE", "LtE", "Eq", "NotEq">>

\* field > 1 and the like, as test_simple_comparison
SimpleRules == [i \in 1..6 |-> NumericRule(Comparison(ComparisonOps[i], ratio, Number(1)))]

Thresholds == (-MaxThreshold)..MaxThreshold

\* field / debt > t and field / debt < t for each threshold t
RatioRules ==
    [i \in 1..(2 * (2 * MaxThreshold + 1)) |->
        NumericRule(Comparison(IF i % 2 = 1 THEN "Gt" ELSE "Lt",
                               Arith("Div", ratio, debt),
                               Number(((i - 1) \div 2) - MaxThreshold)))]

\* the shapes of test_complex_expression, test_and_condition and test_abs_function,
\* with OR and NOT beside AND
CompoundRules ==
    <<NumericRule(Comparison("Lt",
          Paren(Arith("Div", ratio, Paren(Arith("Add", debt, Number(1))))), Number(1))),
      NumericRule(AndOf(Paren(Comparison("Gt", ratio, Number(0))),
                        Paren(Comparison("Lt", debt, Number(2))))),
      NumericRule(OrOf(Paren(Comparison("Gt", ratio, Number(0))),
                       Paren(Comparison("Gt", debt, Number(1))))),
      NumericRule(NotOf(Paren(Comparison("Gt", ratio, Number(1))))),
      NumericRule(AndOf(Paren(Comparison("Gt", debt, Number(0))),
                        NotOf(Paren(Comparison("Gt", ratio, Number(1)))))),
      NumericRule(Comparison("Gt",
          AbsOf(Arith("Sub", ratio, Paren(Arith("Sub", debt, Number(1))))), Number(1))),
      NumericRule(Comparison("Eq", Arith("Mult", ratio, debt), Number(0))),
      NumericRule(Comparison("GtE", Arith("Sub", ratio, debt), Number(0))),
      NumericRule(Comparison("NotEq", Arith("Add", ratio, debt), Number(0)))>>

RawRule(parts, family, fields) == Rule(Concat(parts), family, NoForm, fields)

Gt1 == <<" ", ">", " ", "1">>

\* rules of the other operators of the language: the contains operator, a
\* comparison of texts, a null test, a membership test, the COUNT forms
OperatorRules ==
    <<RawRule(<<F_sector, Sp, T_contains, <<" ", "[", Quote, "a", Quote, "]">> >>,
              "contains", {Typed(F_sector, "str")}),
      RawRule(<<F_sector, <<" ", "=", "=", " ", Quote, "a", "b", Quote>> >>,
              "string", {Typed(F_sector, "str")}),
      RawRule(<<F_ratio, <<" ", "=", "=", " ">>, T_NULL>>,
              "null", {Typed(F_ratio, "num")}),
      RawRule(<<F_ratio, Sp, T_in, <<" ", "[", "1", ",", " ", "2", "]">> >>,
              "membership", {Typed(F_ratio, "num")}),
      RawRule(<<T_COUNT, <<"(">>, F_items, <<")">>, Gt1>>,
              "count", {Typed(F_items, "list")}),
      RawRule(<<T_COUNT, <<"(">>, F_items, <<")", " ", "=", "=", " ", "2">> >>,
              "count", {Typed(F_items, "list")}),
      RawRule(<<T_COUNT, <<"(">>, F_items, <<" ", "<", " ", "1", ")">>, Gt1>>,
              "count", {Typed(F_items, "list")})>>

\* any([debt])
AnyOfDebt == T_any \o <<"(", "[">> \o F_debt \o <<"]", ")">>

\* rules that call a function outside SAFE_FUNCTIONS: in an operand of AND, in a
\* branch of a conditional, in the filter of a comprehension, and as the left
\* side of the top comparison
CallRules ==
    <<RawRule(<<<<"(">>, F_debt, Gt1, <<")", " ">>, T_AND, Sp, AnyOfDebt>>,
              "call", {Typed(F_debt, "num")}),
      RawRule(<<<<"1", " ">>, T_if, Sp, F_debt, Gt1, Sp, T_else, Sp, AnyOfDebt>>,
              "call", {Typed(F_debt, "num")}),
      RawRule(<<T_sum, <<"(", "1", " ">>, T_for, <<" ", "x", " ">>, T_in, Sp, F_items, Sp,
                T_if, Sp, T_any, <<"(", "[", "x", "]", ")", ")", " ", ">", " ", "0">> >>,
              "call", {Typed(F_items, "list")}),
      RawRule(<<T_exit, <<"(", ")">>, Gt1, Sp, T_if, Sp, T_False, Sp, T_else,
                <<" ", "0">> >>,
              "call", {})>>

\* rules whose text is not an expression: a comparison that lacks its right side,
\* an unmatched parenthesis, a leading blank
MalformedRules ==
    <<RawRule(<<F_ratio, <<" ", ">">> >>, "malformed", {Typed(F_ratio, "num")}),
      RawRule(<<F_ratio, Gt1, <<" ", ")">> >>, "malformed", {Typed(F_ratio, "num")}),
      RawRule(<<Sp, F_ratio, Gt1>>, "malformed", {Typed(F_ratio, "num")})>>

\* a second text rule: the constant it compares with is an ideograph; and a rule
\* whose text constant holds an apostrophe beside a comparison of a field
LiteralRules ==
    <<RawRule(<<F_sector, <<" ", "=", "=", " ", Quote, "U+5B57", Quote>> >>,
              "string", {Typed(F_sector, "str")}),
      RawRule(<<F_ratio, Gt1, Sp, T_AND, Sp, F_sector,
                <<" ", "=", "=", " ", Quote, "a", Apostrophe, "b", Quote>> >>,
              "mixed", {Typed(F_ratio, "num"), Typed(F_sector, "str")})>>

\* COUNT(list op v) > limit
CountIf(name, op, v, limit) ==
    [k |-> "count_if", name |-> name, op |-> op, v |-> v, limit |-> limit]

CountIfRule(form) ==
    Rule(T_COUNT \o <<"(">> \o form.name \o Sp \o OpText(form.op) \o Sp \o IntStr(form.v)
         \o <<")", " ", ">", " ">> \o IntStr(form.limit),
         "count_if", form, {Typed(form.name, "list")})

CountOps == <<"Lt", "Gt", "LtE", "GtE", "Eq">>

\* the list of the records with a list field, and its length
Items == <<PyInt(1), PyInt(0), PyInt(2)>>
ItemsLen == Len(Items)

\* COUNT(list op 1) > limit for each operator of a COUNT and each limit below the
\* length of the list
CountIfRules ==
    [i \in 1..(Len(CountOps) * ItemsLen) |->
        CountIfRule(CountIf(F_items, CountOps[((i - 1) \div ItemsLen) + 1], 1,
                            (i - 1) % ItemsLen))]

\* COUNT(list) op limit
BareCount(name, op, limit) == [k |-> "bare_count", name |-> name, op |-> op, limit |-> limit]

BareCountRule(form) ==
    Rule(T_COUNT \o <<"(">> \o form.name \o <<")", " ">> \o OpText(form.op) \o Sp
         \o IntStr(form.limit),
         "bare_count", form, {Typed(form.name, "list")})

\* COUNT(list) > limit and COUNT(list) == limit, the limit being the length of the
\* list or one less
BareCountRules ==
    <<BareCountRule(BareCount(F_items, "Gt", ItemsLen - 1)),
      BareCountRule(BareCount(F_items, "Gt", ItemsLen)),
      BareCountRule(BareCount(F_items, "Eq", ItemsLen - 1)),
      BareCountRule(BareCount(F_items, "Eq", ItemsLen))>>

\* a null test of the field with the ASCII name, spelled None
NullRules ==
    <<RawRule(<<F_debt, <<" ", "=", "=", " ">>, T_None>>, "null", {Typed(F_debt, "num")})>>

\* two fields whose names begin with the name of another field
F_ratio_opening == F_ratio \o <<"_", "U+5217">>
F_ratio_percent == F_ratio \o <<"%">>

PrefixRule(form) ==
    Rule(Render(form), "prefix", form, {Typed(n, "num") : n \in FormFields(form)})

\* rules over a field whose name extends the name of another
PrefixRules ==
    <<PrefixRule(Comparison("Gt", Field(F_ratio_opening), ratio)),
      PrefixRule(Comparison("Gt", Field(F_ratio_percent), Number(1)))>>

\* rules in which the place of a value matters: the field is the base of a
\* power, and the field is compared with the text "1"
BindingRules ==
    <<RawRule(<<F_ratio, <<" ", "*", "*", " ", "2">>, Gt1>>,
              "binding", {Typed(F_ratio, "num")}),
      RawRule(<<F_ratio, <<" ", "=", "=", " ", Quote, "1", Quote>> >>,
              "binding", {Typed(F_ratio, "str")})>>

\* the rulebook: schema_id is the index of a rule
Rulebook ==
    SimpleRules \o RatioRules \o CompoundRules \o OperatorRules \o CallRules
    \o MalformedRules \o LiteralRules \o CountIfRules \o BareCountRules \o NullRules
    \o PrefixRules \o BindingRules

(***************************************************************************)
(* Financial records                                                       *)
(***************************************************************************)
Vals == (-MaxVal)..MaxVal

\* a number, or no item for the field
Bound(name, v) == IF v \in Vals THEN <<Item(name, PyInt(v))>> ELSE <<>>

Absent == MaxVal + 1

\* the records of the two numeric fields, each bound to a number or absent
NumericRecords ==
    {Bound(F_ratio, x) \o Bound(F_debt, y) : x \in Vals \cup {Absent}, y \in Vals \cup {Absent}}

\* records with a text, a list or None
OtherRecords ==
    {<<Item(F_sector, Str(<<"a", "b">>))>>,
     <<Item(F_sector, Str(<<"a", "b">>)), Item(F_ratio, PyInt(1))>>,
     <<Item(F_sector, Str(<<"U+5B57">>))>>,
     <<Item(F_items, List(Items))>>,
     <<Item(F_items, List(Items)), Item(F_debt, PyInt(1))>>,
     <<Item(F_ratio, None), Item(F_debt, PyInt(1))>>,
     <<Item(F_debt, None)>>,
     <<Item(F_sector, Str(<<"a", Apostrophe, "b">>))>>}

\* records with two fields, the name of one inside the name of the other
PrefixRecords ==
    {<<Item(F_ratio, PyInt(1)), Item(F_ratio_opening, PyInt(2))>>,
     <<Item(F_ratio_opening, PyInt(1)), Item(F_ratio, PyInt(2))>>,
     <<Item(F_ratio, PyInt(1)), Item(F_ratio_percent, PyInt(2))>>}

\* a record with a text that is the name of another of its fields
QuotingRecords == {<<Item(F_ratio, Str(F_sector)), Item(F_sector, PyInt(1))>>}

Records == NumericRecords \cup OtherRecords \cup PrefixRecords \cup QuotingRecords

(***************************************************************************)
(* The audit workflow: AuditState, the rules and records of a run          *)
(***************************************************************************)
\* the longest list of rules a run retrieves
MaxRules == 3

\* None, or the FinancialData of a parsed document as to_eval_dict gives it
NoData == [present |-> FALSE, items |-> <<>>]
Data(items) == [present |-> TRUE, items |-> items]

\* a Rule of the rulebook file
AuditRule(rule_id, category, priority, text) ==
    [rule_id |-> rule_id, category |-> category, priority |-> priority,
     logic_schema |-> text]

NoRule == AuditRule("", "", "", <<>>)

\* the rules a run may retrieve: a comparison, a ratio, a malformed rule and a
\* rule whose evaluation raises SystemExit
AuditRules ==
    <<AuditRule("CL-001", "CL", "Critical", SimpleRules[1].text),
      AuditRule("FM-001", "FM", "High", RatioRules[Len(RatioRules) - 1].text),
      AuditRule("LC-001", "LC", "Medium", MalformedRules[1].text),
      AuditRule("OP-001", "OP", "Low", CallRules[Len(CallRules)].text)>>

\* the lists of at most n rules, no rule twice
RECURSIVE RuleLists(_)
RuleLists(n) ==
    IF n = 0 THEN {<<>>}
    ELSE LET shorter == RuleLists(n - 1)
         IN shorter \cup
            {Append(l, AuditRules[i]) : l \in {x \in shorter : Len(x) = n - 1},
                                       i \in 1..Len(AuditRules)}

DistinctRules(l) == \A i, j \in 1..Len(l) : i # j => l[i] # l[j]

RetrievableRules == {l \in RuleLists(MaxRules) : DistinctRules(l)}

\* the records a parsed document may give
AuditRecords ==
    {<<>>,
     <<Item(F_ratio, PyInt(2)), Item(F_debt, PyInt(1))>>,
     <<Item(F_ratio, PyInt(-2)), Item(F_debt, PyInt(0))>>}

NoReport ==
    [present |-> FALSE, total_rules_checked |-> 0, total_violations |-> 0, findings |-> <<>>,
     critical_count |-> 0, high_count |-> 0, medium_count |-> 0, low_count |-> 0,
     category_summary |-> <<>>]

\* the collaborators of a run: PDFParser.parse gives a document or raises, the
\* retriever gives a list of rules or raises, the reporter builds the report or raises
Worlds ==
    [parsed : BOOLEAN, items : AuditRecords, retrieved : BOOLEAN, rules : RetrievableRules,
     reported : BOOLEAN, check_all_rules : BOOLEAN]

\* a world is named once: what a collaborator that raises would have given is <<>>
Canonical(w) ==
    /\ (~w.parsed => w.items = <<>>)
    /\ (~w.retrieved => w.rules = <<>>)

NoWorld ==
    [parsed |-> FALSE, items |-> <<>>, retrieved |-> FALSE, rules |-> <<>>,
     reported |-> FALSE, check_all_rules |-> FALSE]

create_initial_state(check_all_rules) ==
    [check_all_rules |-> check_all_rules,
     financial_data |-> NoData,
     parse_error |-> NoError,
     retrieved_rules |-> <<>>,
     current_rule_index |-> 0,
     current_rule |-> NoRule,
     findings |-> <<>>,
     rules_checked |-> 0,
     rules_with_violations |-> 0,
     report |-> NoReport,
     should_continue |-> TRUE,
     error_message |-> NoError]

(***************************************************************************)
(* The evaluator as a state machine: a LogicEvaluator, just constructed,   *)
(* is given a rule of the rulebook and a record; Evaluate is the call.     *)
(***************************************************************************)
NoFrame == [processed |-> <<>>, substituted |-> <<>>]

\* no rule file is being loaded
NoLoader == [lines |-> <<>>, line_num |-> 0, rules |-> <<>>, warnings |-> <<>>, raised |-> ""]

\* an evaluator not yet constructed
NoInstance == [heap |-> <<>>, _evidence |-> 0, returned |-> <<>>]

\* no audit run
WorkflowIdle ==
    /\ world = NoWorld
    /\ state = create_initial_state(FALSE)
    /\ next_node = "none"
    /\ trace = <<>>
    /\ events = <<>>

Init ==
    /\ schema_id \in 1..Len(Rulebook)
    /\ logic_schema = Rulebook[schema_id].text
    /\ financial_data \in Records
    /\ _evidence = <<>>
    /\ outcome = NoOutcome
    /\ eval_calls = <<>>
    /\ frame = NoFrame
    /\ pc = "ready"
    /\ WorkflowIdle
    /\ report = NoReport
    /\ loader = NoLoader
    /\ instance = NoInstance
    /\ runs = <<>>

\* the caller has the outcome, the evaluator its evidence
Return(call) ==
    /\ outcome' = call.outcome
    /\ _evidence' = call.evidence
    /\ eval_calls' = call.calls
    /\ frame' = call.frame

Evaluate ==
    /\ pc = "ready"
    /\ Return(evaluate(logic_schema, financial_data))
    /\ pc' = "done"
    /\ UNCHANGED <<logic_schema, financial_data, schema_id, world, state, next_node, trace,
                   report, events, loader, instance, runs>>

Next == Evaluate

Spec == Init /\ [][Next]_vars

(***************************************************************************)
(* Properties of evaluate                                                  *)
(***************************************************************************)
rule == Rulebook[schema_id]

done == pc = "done"

\* the fields the rule refers to
Referenced == {f.name : f \in rule.fields}

\* the fields of the record bound to a value other than None
BoundFields == {k \in Keys(financial_data) : Get(financial_data, k).t # "none"}

\* C1: evaluate never lets an exception reach its caller: every call ends with
\* an outcome returned.
C1_NeverRaises == done => outcome.returned

\* C2: in every outcome evaluate returns, an error that is set comes with
\* violation false.
C2_ErrorMeansNoViolation ==
    (done /\ outcome.returned /\ outcome.error # NoError) => ~outcome.violation

\* a call ended in the except branch, an error of the tree walk in the outcome
C2_Witness ==
    /\ done
    /\ outcome.returned
    /\ outcome.error \notin {NoError, "Insufficient data for evaluation"}
    /\ ~outcome.violation

\* C3: a rule that refers to a field the record does not have ends with
\* violation false and a non-empty missing_fields, whatever the alphabet of the
\* field's name and wherever the reference stands.
C3_AbsentFieldReported ==
    (done /\ Referenced \ Keys(financial_data) # {}) =>
        /\ outcome.returned
        /\ ~outcome.violation
        /\ outcome.has_missing_fields
        /\ outcome.missing_fields # {}

\* the families of rules that the language supports
SupportedFamilies == {"numeric", "contains", "string", "null", "membership", "count"}

\* every field of the rule is in the record with a value of the expected type
WellTyped ==
    \A f \in rule.fields :
        HasKey(financial_data, f.name) /\ Get(financial_data, f.name).t = f.t

\* C4: a rule of the supported language on a record that has every field of the
\* rule, well typed, ends with error None.
C4_WellTypedNoError ==
    (done /\ rule.family \in SupportedFamilies /\ WellTyped) =>
        outcome.returned /\ outcome.error = NoError

(***************************************************************************)
(* Ordinary arithmetic and boolean semantics of a form: a quotient n/d of   *)
(* integers with d > 0 for a term, a truth value for a condition.           *)
(***************************************************************************)
Quot(n, d) == [n |-> n, d |-> d]

RECURSIVE Value(_, _), DividesByZero(_, _)
\* the value of a term in which no division is by zero
Value(f, data) ==
    CASE f.k = "field" -> Quot(Get(data, f.name).n, 1)
      [] f.k = "number" -> Quot(f.n, 1)
      [] f.k = "paren" -> Value(f.x, data)
      [] f.k = "abs" -> LET v == Value(f.x, data) IN Quot(Abs(v.n), v.d)
      [] f.k = "arith" ->
            LET a == Value(f.l, data)
                b == Value(f.r, data)
            IN CASE f.op = "Add" -> Quot(a.n * b.d + b.n * a.d, a.d * b.d)
                 [] f.op = "Sub" -> Quot(a.n * b.d - b.n * a.d, a.d * b.d)
                 [] f.op = "Mult" -> Quot(a.n * b.n, a.d * b.d)
                 [] f.op = "Div" -> IF b.n > 0 THEN Quot(a.n * b.d, a.d * b.n)
                                    ELSE Quot(-(a.n * b.d), a.d * (-b.n))

\* some division of the form has a divisor of value zero
DividesByZero(f, data) ==
    CASE f.k \in {"field", "number"} -> FALSE
      [] f.k \in {"paren", "abs", "not"} -> DividesByZero(f.x, data)
      [] f.k \in {"compare", "and", "or"} ->
            DividesByZero(f.l, data) \/ DividesByZero(f.r, data)
      [] f.k = "arith" ->
            \/ DividesByZero(f.l, data)
            \/ DividesByZero(f.r, data)
            \/ (f.op = "Div" /\ Value(f.r, data).n = 0)

RECURSIVE Holds(_, _)
\* the truth value of a condition in which no division is by zero
Holds(f, data) ==
    CASE f.k = "paren" -> Holds(f.x, data)
      [] f.k = "not" -> ~Holds(f.x, data)
      [] f.k = "and" -> Holds(f.l, data) /\ Holds(f.r, data)
      [] f.k = "or" -> Holds(f.l, data) \/ Holds(f.r, data)
      [] f.k = "compare" ->
            LET a == Value(f.l, data)
                b == Value(f.r, data)
                x == a.n * b.d
                y == b.n * a.d
            IN CASE f.op = "Gt" -> x > y
                 [] f.op = "Lt" -> x < y
                 [] f.op = "GtE" -> x >= y
                 [] f.op = "LtE" -> x <= y
                 [] f.op = "Eq" -> x = y
                 [] f.op = "NotEq" -> x # y

\* the rule is of the arithmetic language and the record binds each of its
\* fields to a number
NumericCase ==
    /\ rule.family = "numeric"
    /\ \A n \in Referenced : HasKey(financial_data, n) /\ Get(financial_data, n).t = "num"

\* C5: a rule of comparisons, arithmetic, abs(), parentheses and AND / OR / NOT
\* over fields bound to numbers ends with error None and with violation the
\* truth value of the rule under ordinary arithmetic and boolean semantics.
C5_NumericVerdict ==
    (done /\ NumericCase /\ ~DividesByZero(rule.form, financial_data)) =>
        /\ outcome.returned
        /\ outcome.error = NoError
        /\ outcome.violation = Holds(rule.form, financial_data)

\* the rule is field / field compared with a threshold
IsRatioRule ==
    /\ rule.form.k = "compare"
    /\ rule.form.l.k = "arith"
    /\ rule.form.l.op = "Div"
    /\ rule.form.r.k = "number"

\* C6: a division by zero in a rule neither raises nor ends with an error; n / 0
\* is positive infinity for every n, so that n / 0 > t is a violation and
\* n / 0 < t is none for every threshold t.
C6_DivisionByZeroIsInfinite ==
    (done /\ NumericCase /\ DividesByZero(rule.form, financial_data)) =>
        /\ outcome.returned
        /\ outcome.error = NoError
        /\ IsRatioRule =>
              /\ _safe_eval(_substitute_values(Render(rule.form.l), financial_data)) = Inf
              /\ outcome.violation = (rule.form.op = "Gt")

\* a negative numerator over zero, compared with > and reported as a violation
C6_Witness ==
    /\ done
    /\ NumericCase
    /\ IsRatioRule
    /\ rule.form.op = "Gt"
    /\ Get(financial_data, F_debt).n = 0
    /\ Get(financial_data, F_ratio).n < 0
    /\ outcome.returned
    /\ outcome.violation

\* the comparison classes that the Compare branch accepts
AcceptedComparisons == SAFE_COMPARISONS \cup {"In", "NotIn", "Is", "IsNot"}

RECURSIVE OutsideWhitelist(_, _)
\* the tree has, at some position, a node kind, an operator, a name or a called
\* function that the tree walk does not accept; bound holds the variables of
\* the comprehensions around the position
OutsideWhitelist(node, bound) ==
    CASE node.kind = "Constant" -> FALSE
      [] node.kind \in {"List", "Tuple"} ->
            \E i \in 1..Len(node.elts) : OutsideWhitelist(node.elts[i], bound)
      [] node.kind = "BinOp" ->
            \/ node.op \notin SAFE_OPERATORS
            \/ OutsideWhitelist(node.left, bound)
            \/ OutsideWhitelist(node.right, bound)
      [] node.kind = "UnaryOp" ->
            node.op \notin SAFE_UNARY_OPERATORS \/ OutsideWhitelist(node.operand, bound)
      [] node.kind = "Compare" ->
            \/ \E i \in 1..Len(node.ops) : node.ops[i] \notin AcceptedComparisons
            \/ OutsideWhitelist(node.left, bound)
            \/ \E i \in 1..Len(node.comparators) :
                    OutsideWhitelist(node.comparators[i], bound)
      [] node.kind = "BoolOp" ->
            \E i \in 1..Len(node.values) : OutsideWhitelist(node.values[i], bound)
      [] node.kind = "Call" ->
            \/ node.func.kind # "Name"
            \/ node.func.id \notin SAFE_FUNCTIONS
            \/ \E i \in 1..Len(node.args) : OutsideWhitelist(node.args[i], bound)
      [] node.kind = "Name" -> node.id \notin bound
      [] node.kind = "IfExp" ->
            \/ OutsideWhitelist(node.test, bound)
            \/ OutsideWhitelist(node.body, bound)
            \/ OutsideWhitelist(node.orelse, bound)
      [] node.kind = "GeneratorExp" ->
            \/ OutsideWhitelist(node.iter, bound)
            \/ OutsideWhitelist(node.elt, bound \cup {node.target.id})
            \/ \E i \in 1..Len(node.ifs) :
                    OutsideWhitelist(node.ifs[i], bound \cup {node.target.id})
      [] OTHER -> TRUE

\* the record binds every field of the rule and the bound text has no name of
\* ideographs left
FullyBound == Referenced \subseteq BoundFields /\ ~_has_missing_data(frame.substituted)

\* C7: a fully bound expression whose tree has, at any position, something
\* outside the whitelist is rejected: the outcome has an error and violation
\* false.
C7_OutsideWhitelistRejected ==
    (/\ done
     /\ FullyBound
     /\ AstParse(frame.substituted).ok
     /\ OutsideWhitelist(AstParse(frame.substituted).node, {})) =>
        /\ outcome.returned
        /\ outcome.error # NoError
        /\ ~outcome.violation

\* C8: no call of evaluate hands a text to the builtin eval().
C8_NoGeneralEvaluator == eval_calls = <<>>

\* the text of a number without exponent
BareNumber(text) ==
    LET t == Strip(text)
        body == IF t # <<>> /\ Head(t) \in {"+", "-"} THEN Tail(t) ELSE t
    IN /\ AllIn(body, Digits \cup {"."})
       /\ \E i \in 1..Len(body) : body[i] \in Digits
       /\ Cardinality({i \in 1..Len(body) : body[i] = "."}) <= 1

\* the text is one comparison of two bare numbers
TwoBareNumbers(text) ==
    \E k \in 1..Len(ComparisonOps) : \E i \in 1..Len(text) :
        /\ StartsAt(text, i, OpText(ComparisonOps[k]))
        /\ BareNumber(SubSeq(text, 1, i - 1))
        /\ BareNumber(SubSeq(text, i + Len(OpText(ComparisonOps[k])), Len(text)))

\* C9: a bound expression that does not parse and is not one comparison of two
\* bare numbers ends with an error set and violation false.
C9_UnparsableIsAnError ==
    (/\ done
     /\ ~AstParse(frame.substituted).ok
     /\ ~TwoBareNumbers(frame.substituted)) =>
        /\ outcome.returned
        /\ outcome.error # NoError
        /\ ~outcome.violation

\* the fields of the record whose name the binding replaced in the expression
Substituted ==
    {k \in BoundFields : ReSearch(WordPattern(k), frame.processed, 1).ok}

\* C10: the evidence of an outcome holds the fields substituted into the
\* expression, each with its value, and no other field of the record.
C10_EvidenceIsWhatWasSubstituted ==
    (done /\ outcome.returned) =>
        /\ Keys(outcome.evidence) = Substituted
        /\ \A i \in 1..Len(outcome.evidence) :
              outcome.evidence[i].val = Get(financial_data, outcome.evidence[i].key)

(***************************************************************************)
(* Properties of the completeness check, the COUNT forms, the null test    *)
(* and the order of binding                                                *)
(***************************************************************************)
RECURSIVE OutsideQuotesFrom(_, _, _)
\* some ideograph of the text from position i on stands outside a quoted
\* literal; open is the quote that began the literal around position i, or ""
OutsideQuotesFrom(text, i, open) ==
    IF i > Len(text) THEN FALSE
    ELSE IF open # "" THEN OutsideQuotesFrom(text, i + 1, IF text[i] = open THEN "" ELSE open)
    ELSE IF text[i] \in {Quote, Apostrophe} THEN OutsideQuotesFrom(text, i + 1, text[i])
    ELSE text[i] \in CJK \/ OutsideQuotesFrom(text, i + 1, "")

CjkOutsideQuotes(text) == OutsideQuotesFrom(text, 1, "")

\* the call ended with the outcome of insufficient data
InsufficientOutcome ==
    /\ outcome.returned
    /\ outcome.error = "Insufficient data for evaluation"
    /\ outcome.has_missing_fields

\* C11: the completeness check reports missing data exactly when, after the
\* binding, a run of ideographs stands outside the quoted literals of the text.
C11_MissingIffNameOutsideQuotes ==
    done => (InsufficientOutcome <=> CjkOutsideQuotes(frame.substituted))

\* the record binds the list field of the rule to a list
ListCase(family) ==
    /\ rule.family = family
    /\ HasKey(financial_data, rule.form.name)
    /\ Get(financial_data, rule.form.name).t = "list"

\* a op b of two integers
IntCompare(op, a, b) ==
    CASE op = "Gt" -> a > b
      [] op = "Lt" -> a < b
      [] op = "GtE" -> a >= b
      [] op = "LtE" -> a <= b
      [] op = "Eq" -> a = b
      [] op = "NotEq" -> a # b

\* the number of elements e of the list with e op v
Satisfying(elts, op, v) == Cardinality({i \in 1..Len(elts) : IntCompare(op, elts[i].n, v)})

\* C12: COUNT(L op v) is the number of elements e of the list L with e op v, for
\* each op of <, >, <=, >=, ==: the rule COUNT(L op v) > limit is a violation
\* exactly when that number is above the limit.
C12_CountIsOfSatisfyingElements ==
    (done /\ ListCase("count_if")) =>
        /\ outcome.returned
        /\ outcome.error = NoError
        /\ outcome.violation =
              (Satisfying(Get(financial_data, rule.form.name).e, rule.form.op, rule.form.v)
                   > rule.form.limit)

\* what a bare COUNT over the list is to give in the rule: the number of truthy
\* elements when the rule has an equality, the length otherwise
BareCountValue(elts) ==
    IF Contains(rule.text, <<"=", "=">>) THEN Satisfying(elts, "NotEq", 0) ELSE Len(elts)

\* C13: a bare COUNT(x) over a list of the record ends with error None and
\* counts the elements of the list when the rule has no ==, its truthy elements
\* when the rule has one.
C13_BareCountLengthOrTruthy ==
    (done /\ ListCase("bare_count")) =>
        /\ outcome.returned
        /\ outcome.error = NoError
        /\ outcome.violation =
              IntCompare(rule.form.op, BareCountValue(Get(financial_data, rule.form.name).e),
                         rule.form.limit)

\* the field of a null test
NullField == CHOOSE n \in Referenced : TRUE

\* C14: a field bound to None is told from an absent field: F == NULL (or
\* F == None) on a record that binds F to None is a violation with error None,
\* and insufficient data is reported only for a record without the key F.
C14_NullIsNotAbsent ==
    (done /\ rule.family = "null") =>
        /\ (HasKey(financial_data, NullField) /\ Get(financial_data, NullField).t = "none") =>
              (outcome.returned /\ outcome.violation /\ outcome.error = NoError)
        /\ InsufficientOutcome => ~HasKey(financial_data, NullField)

RECURSIVE BoundForm(_, _)
\* the form with the value of each field in the place of its name
BoundForm(f, data) ==
    CASE f.k = "field" -> Number(Get(data, f.name).n)
      [] f.k = "number" -> f
      [] f.k \in {"arith", "compare", "and", "or"} ->
            [f EXCEPT !.l = BoundForm(f.l, data), !.r = BoundForm(f.r, data)]
      [] f.k \in {"abs", "paren", "not"} -> [f EXCEPT !.x = BoundForm(f.x, data)]

\* the record binds every field of the rule to a number, and the name of one of
\* its fields is inside the name of a longer field of the rule
PrefixCase ==
    /\ rule.family = "prefix"
    /\ \A n \in Referenced : HasKey(financial_data, n) /\ Get(financial_data, n).t = "num"
    /\ \E short \in Keys(financial_data) : \E long \in Referenced :
            Len(short) < Len(long) /\ Contains(long, short)

\* C15: the binding replaces the longest names first: with two fields in the
\* record, the name of one inside the name of the other, each occurrence of the
\* longer name becomes the value of the longer field and no part of it the value
\* of the shorter.
C15_LongerNameBoundWhole ==
    (done /\ PrefixCase) => frame.substituted = Render(BoundForm(rule.form, financial_data))

(***************************************************************************)
(* The audit workflow as a state machine: the graph of build_audit_workflow *)
(* runs parse, retrieve, audit (in a loop) and report; each action is a     *)
(* node with the merge of its update into the AuditState and the edge that  *)
(* leaves it.                                                               *)
(***************************************************************************)
\* an Optional[str] that is neither None nor empty
IsSet(message) == message \notin {NoError, ""}

should_continue_audit(st) ==
    IF IsSet(st.error_message) THEN "report"
    ELSE IF st.should_continue THEN "audit"
    ELSE "report"

\* severity_map.get(rule.priority, ViolationSeverity.MEDIUM)
severity_map(priority) ==
    IF priority \in {"Critical", "High", "Medium", "Low"} THEN priority ELSE "Medium"

Finding(audit_rule, result) ==
    [rule_id |-> audit_rule.rule_id,
     category |-> audit_rule.category,
     severity |-> severity_map(audit_rule.priority),
     logic_schema |-> audit_rule.logic_schema,
     evidence |-> result.evidence,
     calculated_value |-> result.calculated_value,
     threshold_value |-> result.threshold_value]

\* rules_with_violations after a rule with this verdict
Counted_stale(rules_with_violations, violation) == rules_with_violations

Counted(rules_with_violations, violation) ==
    IF violation THEN rules_with_violations + 1 ELSE rules_with_violations

\* dict.get(key, default) on the dict a node returned
UpdateGet(update, key, default) == IF key \in DOMAIN update THEN update[key] ELSE default

\* the state with every key of a node's dict put in the place of its own
Replaced(st, update) ==
    [st EXCEPT !.financial_data = UpdateGet(update, "financial_data", st.financial_data),
               !.parse_error = UpdateGet(update, "parse_error", st.parse_error),
               !.retrieved_rules = UpdateGet(update, "retrieved_rules", st.retrieved_rules),
               !.current_rule_index = UpdateGet(update, "current_rule_index", st.current_rule_index),
               !.current_rule = UpdateGet(update, "current_rule", st.current_rule),
               !.findings = UpdateGet(update, "findings", st.findings),
               !.rules_checked = UpdateGet(update, "rules_checked", st.rules_checked),
               !.rules_with_violations =
                   UpdateGet(update, "rules_with_violations", st.rules_with_violations),
               !.report = UpdateGet(update, "report", st.report),
               !.should_continue = UpdateGet(update, "should_continue", st.should_continue),
               !.error_message = UpdateGet(update, "error_message", st.error_message)]

\* the state after a node's update is merged into it: a key of the update replaces
\* the state's value, and findings is merged with operator.add
Merge_replacing(st, update) == Replaced(st, update)

Merge(st, update) ==
    [Replaced(st, update) EXCEPT
        !.findings = st.findings \o UpdateGet(update, "findings", <<>>)]

\* what a run of audit_node did: the dict it returned, or the exception that left
\* it; the rule handed to the evaluator (its place in retrieved_rules, 0 for none)
\* and the verdict
Audit(update, raised, evaluated, violation) ==
    [update |-> update, raised |-> raised, rule |-> evaluated, violation |-> violation]

\* lines 127-129
AllChecked(st) == Audit([should_continue |-> FALSE], "", 0, FALSE)

\* lines 140-143 and 195-198
Advanced(st) ==
    [current_rule_index |-> st.current_rule_index + 1,
     rules_checked |-> st.rules_checked + 1]

\* lines 151-190
Recorded(st, audit_rule, result) ==
    [current_rule_index |-> st.current_rule_index + 1,
     current_rule |-> audit_rule,
     rules_checked |-> st.rules_checked + 1,
     rules_with_violations |-> Counted(st.rules_with_violations, result.violation),
     findings |-> IF result.violation THEN <<Finding(audit_rule, result)>> ELSE <<>>,
     should_continue |-> st.current_rule_index + 1 < Len(st.retrieved_rules)]

\* lines 149-198 with what evaluator.evaluate gave: an exception that is no
\* Exception leaves the node, any other is caught at line 192
AfterEvaluate(st, audit_rule, result) ==
    IF result.returned
    THEN Audit(Recorded(st, audit_rule, result), "", st.current_rule_index + 1,
               result.violation)
    ELSE IF result.raised \in BaseOnly
    THEN Audit(<<>>, result.raised, st.current_rule_index + 1, FALSE)
    ELSE Audit(Advanced(st), "", st.current_rule_index + 1, FALSE)

\* lines 131-149
EvaluateRule(st, audit_rule) ==
    AfterEvaluate(st, audit_rule,
                  evaluate(audit_rule.logic_schema, st.financial_data.items).outcome)

\* audit_node(state)
AuditStep(st) ==
    IF st.current_rule_index >= Len(st.retrieved_rules) THEN AllChecked(st)
    ELSE IF ~st.financial_data.present THEN Audit(Advanced(st), "", 0, FALSE)
    ELSE EvaluateRule(st, st.retrieved_rules[st.current_rule_index + 1])

\* parse_node(state); the keys document, raw_text and extracted_keywords are left out
parse_update_silent(w) ==
    IF w.parsed
    THEN [financial_data |-> Data(w.items), parse_error |-> NoError]
    ELSE [parse_error |-> "e", should_continue |-> FALSE]

parse_update(w) ==
    IF w.parsed
    THEN [financial_data |-> Data(w.items), parse_error |-> NoError]
    ELSE [parse_error |-> "e", should_continue |-> FALSE,
          error_message |-> "PDF parsing failed: e"]

\* retrieve_node(state); with check_all_rules or without, the dict holds the list
\* the retriever gave and the index 0; the key all_rules is left out
retrieve_update(w) ==
    IF w.retrieved
    THEN [retrieved_rules |-> w.rules, current_rule_index |-> 0]
    ELSE [error_message |-> "Rule retrieval failed: e", should_continue |-> FALSE]

\* category_summary.get(category, 0)
SummaryGet(summary, category) ==
    IF \E i \in 1..Len(summary) : summary[i].key = category
    THEN summary[CHOOSE i \in 1..Len(summary) : summary[i].key = category].val
    ELSE 0

\* category_summary[category] = n: a new key goes to the end of the dict
SummarySet(summary, category, n) ==
    IF \E i \in 1..Len(summary) : summary[i].key = category
    THEN [i \in 1..Len(summary) |->
             IF summary[i].key = category THEN [key |-> category, val |-> n] ELSE summary[i]]
    ELSE Append(summary, [key |-> category, val |-> n])

\* add_finding without the counters
add_finding_uncounted(audit_report, finding) ==
    [audit_report EXCEPT !.findings = Append(audit_report.findings, finding)]

\* AuditReport.add_finding
add_finding(audit_report, finding) ==
    [audit_report EXCEPT
        !.findings = Append(audit_report.findings, finding),
        !.total_violations = audit_report.total_violations + 1,
        !.critical_count = audit_report.critical_count
                           + (IF finding.severity = "Critical" THEN 1 ELSE 0),
        !.high_count = audit_report.high_count
                       + (IF finding.severity = "High" THEN 1 ELSE 0),
        !.medium_count = audit_report.medium_count
                         + (IF finding.severity = "Medium" THEN 1 ELSE 0),
        !.low_count = audit_report.low_count
                      + (IF finding.severity \notin {"Critical", "High", "Medium"}
                         THEN 1 ELSE 0),
        !.category_summary =
            SummarySet(audit_report.category_summary, finding.category,
                       SummaryGet(audit_report.category_summary, finding.category) + 1)]

RECURSIVE AddFindings(_, _, _)
AddFindings(audit_report, findings, i) ==
    IF i > Len(findings) THEN audit_report
    ELSE AddFindings(add_finding(audit_report, findings[i]), findings, i + 1)

\* AuditReporter.create_report
create_report(findings, total_rules_checked) ==
    AddFindings([NoReport EXCEPT !.present = TRUE,
                                 !.total_rules_checked = total_rules_checked],
                findings, 1)

\* report_node(state); the keys report_markdown, report_json and end_time are
\* left out
report_update(st, w) ==
    IF w.reported
    THEN [report |-> create_report(st.findings, st.rules_checked)]
    ELSE [error_message |-> "Report generation failed: e"]

\* an entry of trace
Step(name, evaluated, violation) == [node |-> name, rule |-> evaluated, violation |-> violation]

\* what the graph's stream() yields after a node: the node's name and its dict
Event_bare(name, update) == [node |-> name, update |-> [node |-> name]]

Event(name, update) == [node |-> name, update |-> update]

EvaluatorIdle ==
    /\ schema_id = 0
    /\ logic_schema = <<>>
    /\ financial_data = <<>>
    /\ _evidence = <<>>
    /\ outcome = NoOutcome
    /\ eval_calls = <<>>
    /\ frame = NoFrame
    /\ pc = "idle"

WorkflowInit ==
    /\ world \in {w \in Worlds : Canonical(w)}
    /\ state = create_initial_state(world.check_all_rules)
    /\ next_node = "parse"
    /\ trace = <<>>
    /\ events = <<>>
    /\ EvaluatorIdle
    /\ report = NoReport
    /\ loader = NoLoader
    /\ instance = NoInstance
    /\ runs = <<>>

\* a node returned: its dict is merged into the state and streamed, and the
\* graph goes along the edge that leaves the node
Run(update, name, evaluated, violation, next) ==
    /\ state' = Merge(state, update)
    /\ events' = Append(events, Event(name, update))
    /\ next_node' = next
    /\ trace' = Append(trace, Step(name, evaluated, violation))
    /\ UNCHANGED <<logic_schema, financial_data, schema_id, _evidence, outcome, eval_calls,
                   frame, pc, world, report, loader,
                   instance, runs>>

\* an exception left a node, and with it the run
Raise(name, evaluated) ==
    /\ next_node' = "raised"
    /\ trace' = Append(trace, Step(name, evaluated, FALSE))
    /\ UNCHANGED <<logic_schema, financial_data, schema_id, _evidence, outcome, eval_calls,
                   frame, pc, world, report, state, events, loader,
                   instance, runs>>

\* parse_node and the edge parse -> retrieve
parse_node ==
    /\ next_node = "parse"
    /\ Run(parse_update(world), "parse", 0, FALSE, "retrieve")

\* retrieve_node and the edge retrieve -> audit
retrieve_node ==
    /\ next_node = "retrieve"
    /\ Run(retrieve_update(world), "retrieve", 0, FALSE, "audit")

Audited(audit) ==
    IF audit.raised # ""
    THEN Raise("audit", audit.rule)
    ELSE Run(audit.update, "audit", audit.rule, audit.violation,
             should_continue_audit(Merge(state, audit.update)))

\* audit_node and the conditional edge that leaves it
audit_node ==
    /\ next_node = "audit"
    /\ Audited(AuditStep(state))

\* report_node and the edge report -> END
report_node ==
    /\ next_node = "report"
    /\ Run(report_update(state, world), "report", 0, FALSE, "END")

WorkflowNext == parse_node \/ retrieve_node \/ audit_node \/ report_node

WorkflowSpec == WorkflowInit /\ [][WorkflowNext]_vars

(***************************************************************************)
(* Properties of the audit workflow                                        *)
(***************************************************************************)
\* the steps of the run so far that are runs of this node
StepsOf(name) == {i \in 1..Len(trace) : trace[i].node = name}

\* C16: once a parsing failure is recorded, the retrieval stage is not run, no
\* audit step is run, and neither the rule index nor the checked-count has moved
C16_ParseFailureShortCircuits ==
    state.parse_error # NoError =>
        /\ StepsOf("retrieve") = {}
        /\ StepsOf("audit") = {}
        /\ state.current_rule_index = 0
        /\ state.rules_checked = 0

\* a node is left to run: the guards of the four actions of WorkflowNext
NodeLeft == next_node \in {"parse", "retrieve", "audit", "report"}

\* C17: a run never loops in the audit step (it takes at most one audit step per
\* rule and one more), and when no node is left to run it has reached END with
\* a report or with an error message recorded
C17_RunTerminates ==
    /\ Cardinality(StepsOf("audit")) <= Len(state.retrieved_rules) + 1
    /\ \/ NodeLeft
       \/ /\ next_node = "END"
          /\ state.report.present \/ IsSet(state.error_message)

\* the audit step this transition took handed the rule at current_rule_index to
\* the evaluator, moved the index by one and not past the end of the list, and
\* appended a Finding for that rule exactly when the verdict was a violation
OneRuleAudited ==
    /\ trace' = Append(trace, Step("audit", state.current_rule_index + 1,
                                   trace'[Len(trace')].violation))
    /\ state'.current_rule_index = state.current_rule_index + 1
    /\ state'.current_rule_index <= Len(state'.retrieved_rules)
    /\ IF trace'[Len(trace')].violation
       THEN /\ Len(state'.findings) = Len(state.findings) + 1
            /\ SubSeq(state'.findings, 1, Len(state.findings)) = state.findings
            /\ state'.findings[Len(state'.findings)].rule_id
                 = state.retrieved_rules[state.current_rule_index + 1].rule_id
       ELSE state'.findings = state.findings

\* C18: while current_rule_index < len(rules), every audit step evaluates exactly
\* the rule at current_rule_index, advances the index by exactly one, appends a
\* Finding for that rule if and only if the verdict is a violation, and the index
\* never exceeds len(rules)
C18_OneRulePerAuditStep ==
    [][(next_node = "audit" /\ state.current_rule_index < Len(state.retrieved_rules))
          => OneRuleAudited]_vars

\* the rules of AuditRules that are malformed (LC-001) or make the evaluation
\* step fail (OP-001)
FaultyRule(audit_rule) == audit_rule.rule_id \in {"LC-001", "OP-001"}

ValidRule(audit_rule) == ~FaultyRule(audit_rule)

\* the Finding a rule produces on its own, if it produces one
FindingFor(audit_rule, result) ==
    IF result.returned /\ result.violation THEN <<Finding(audit_rule, result)>> ELSE <<>>

RECURSIVE FindingsOf(_, _, _)
FindingsOf(rules, items, i) ==
    IF i > Len(rules) THEN <<>>
    ELSE FindingFor(rules[i], evaluate(rules[i].logic_schema, items).outcome)
         \o FindingsOf(rules, items, i + 1)

\* a run whose stages all succeed and whose rule list has exactly one faulty rule
OneFaultyRule ==
    /\ world.parsed /\ world.retrieved /\ world.reported
    /\ Len(SelectSeq(world.rules, FaultyRule)) = 1

\* C19: when a run over a rule list with one faulty rule is over, no error message
\* is recorded, the checked-count is the length of the list, and the Findings are
\* those the other rules produce without the faulty rule, none for the faulty rule
C19_FaultIsolation ==
    (OneFaultyRule /\ ~NodeLeft) =>
        /\ ~IsSet(state.error_message)
        /\ state.rules_checked = Len(world.rules)
        /\ state.findings = FindingsOf(SelectSeq(world.rules, ValidRule), world.items, 1)

\* C20: in every state of a run, rules_with_violations is the number of Findings
\* accumulated in the state
C20_CounterIsFindingCount == state.rules_with_violations = Len(state.findings)

\* a run that has ended after an audit step appended a Finding
C20_Witness ==
    /\ next_node = "END"
    /\ StepsOf("audit") # {}
    /\ Len(state.findings) >= 1
    /\ state.rules_with_violations >= 1

(***************************************************************************)
(* An AuditReport on its own: create_report builds it, and add_finding is   *)
(* called on it any number of times.                                       *)
(***************************************************************************)
MaxFindings == 3

\* the values of Rule.priority: the four of severity_map and one that is not in it
Priorities == {"Critical", "High", "Medium", "Low", "Info"}

Categories == {"CL", "FM"}

\* the Findings audit_node can build, up to the evidence
Findings == {Finding(AuditRule("R", c, p, <<>>), NoOutcome) : c \in Categories, p \in Priorities}

ReportInit ==
    /\ \E f \in Findings, n \in 0..1 :
          report = create_report(IF n = 0 THEN <<>> ELSE <<f>>, n)
    /\ EvaluatorIdle
    /\ WorkflowIdle
    /\ loader = NoLoader
    /\ instance = NoInstance
    /\ runs = <<>>

AddFinding ==
    /\ Len(report.findings) < MaxFindings
    /\ \E f \in Findings : report' = add_finding(report, f)
    /\ UNCHANGED <<logic_schema, financial_data, schema_id, _evidence, outcome, eval_calls,
                   frame, pc, world, state, next_node, trace, events, loader,
                   instance, runs>>

ReportNext == AddFinding

ReportSpec == ReportInit /\ [][ReportNext]_vars

RECURSIVE SummaryTotal(_, _)
SummaryTotal(summary, i) ==
    IF i > Len(summary) THEN 0 ELSE summary[i].val + SummaryTotal(summary, i + 1)

\* C21: after any sequence of add_finding calls on a report built by create_report,
\* total_violations is the length of findings, the four severity counts sum to
\* total_violations, and the per-category counts sum to total_violations
C21_ReportCountsAgree ==
    /\ report.total_violations = Len(report.findings)
    /\ report.critical_count + report.high_count + report.medium_count + report.low_count
         = report.total_violations
    /\ SummaryTotal(report.category_summary, 1) = report.total_violations

\* a report after three calls, with findings of two categories and of the severity
\* that has no branch of its own in add_finding
C21_Witness ==
    /\ Len(report.findings) = 3
    /\ Len(report.category_summary) = 2
    /\ report.low_count >= 1
    /\ report.critical_count >= 1

(***************************************************************************)
(* More properties of the audit workflow                                   *)
(***************************************************************************)
\* a fatal stage error: parsing or rule retrieval failed
FatalError == ~world.parsed \/ ~world.retrieved

IsPrefix(s, t) == Len(s) <= Len(t) /\ SubSeq(t, 1, Len(s)) = s

\* C22: at the end of a run without fatal error the findings are the Findings of
\* the rules whose evaluation returned a violation, in rule order and once each;
\* and during a run the findings of a state are a prefix of those of the next
C22_FindingsInRuleOrder ==
    /\ []((next_node = "END" /\ ~FatalError)
            => state.findings = FindingsOf(world.rules, world.items, 1))
    /\ [][IsPrefix(state.findings, state'.findings)]_vars

\* a run of three rules has ended with the Findings of the first and the third
C22_Witness ==
    /\ next_node = "END"
    /\ ~FatalError
    /\ Len(world.rules) = 3
    /\ Len(state.findings) = 2
    /\ state.findings[1].rule_id = world.rules[1].rule_id
    /\ state.findings[2].rule_id = world.rules[3].rule_id

(***************************************************************************)
(* AuditWorkflowRunner.run and run_audit, once the graph has reached END:   *)
(* invoke() gives the final state, and stream() has yielded one dict        *)
(* {node name: the node's dict} per node that ran.                          *)
(***************************************************************************)
\* run(pdf_path, check_all_rules, stream): in stream mode final_state is the last
\* dict that stream() yielded, otherwise what invoke() returned
run(stream) ==
    IF stream
    THEN [name \in {events[Len(events)].node} |-> events[Len(events)].update]
    ELSE state

\* the dict run_audit builds from result = runner.run(pdf_path, check_all_rules)
run_audit(result) ==
    [success |-> UpdateGet(result, "error_message", NoError) = NoError,
     rules_checked |-> UpdateGet(result, "rules_checked", 0),
     violations_found |-> UpdateGet(result, "rules_with_violations", 0),
     findings |-> UpdateGet(result, "findings", <<>>),
     report |-> UpdateGet(result, "report", NoReport),
     error |-> UpdateGet(result, "error_message", NoError)]

\* the names of the nodes of a sequence of steps or of events
Nodes(steps) == [i \in 1..Len(steps) |-> steps[i].node]

\* the state that the dicts yielded by stream() add up to
RECURSIVE Replay(_, _, _)
Replay(st, yielded, i) ==
    IF i > Len(yielded) THEN st ELSE Replay(Merge(st, yielded[i].update), yielded, i + 1)

ResultKeys == {"rules_checked", "rules_with_violations", "findings", "report", "error_message"}

\* C24: run returns the final AuditState in stream mode as in batch mode: the
\* value it returns has, at its top level, the same rules_checked,
\* rules_with_violations, findings, report and error_message
C24_StreamReturnsFinalState ==
    next_node = "END" =>
        \A key \in ResultKeys :
            /\ key \in DOMAIN run(TRUE)
            /\ run(TRUE)[key] = run(FALSE)[key]

\* the messages of the two fatal stage errors
FatalMessages == {"PDF parsing failed: e", "Rule retrieval failed: e"}

MaxLines == 3

\* what json.loads gives: a value of one of the JSON types, or JSONDecodeError
Json(t, s, fields) == [t |-> t, s |-> s, fields |-> fields]

JsonString(s) == Json("string", s, <<>>)

\* the object of a rule with this rule_id
RuleObject(rule_id) ==
    Json("object", "",
         [rule_id |-> JsonString(rule_id), category |-> JsonString("CL"),
          subject |-> JsonString("s"), logic_schema |-> JsonString("x > 1"),
          priority |-> JsonString("High"), description |-> JsonString("d")])

\* the lines of the model's rule files
Lines ==
    {"", "not json", "5", "[1]", "{\"rule_id\": \"R3\"}", "{\"rule_id\": [1], ...}",
     "{\"rule_id\": \"R1\", ...}", "{\"rule_id\": \"R2\", ...}"}

\* json.loads(line.strip()) on the lines of the model
json_loads(line) ==
    CASE line = "5" -> Json("number", "5", <<>>)
      [] line = "[1]" -> Json("list", "", <<>>)
      [] line = "{\"rule_id\": \"R3\"}" -> Json("object", "", [rule_id |-> JsonString("R3")])
      [] line = "{\"rule_id\": [1], ...}" ->
            [RuleObject("") EXCEPT !.fields.rule_id = Json("list", "", <<>>)]
      [] line = "{\"rule_id\": \"R1\", ...}" -> RuleObject("R1")
      [] line = "{\"rule_id\": \"R2\", ...}" -> RuleObject("R2")
      [] OTHER -> Json("JSONDecodeError", "", <<>>)

\* the fields of Rule that have no default
RequiredFields == {"rule_id", "category", "subject", "logic_schema", "priority", "description"}

\* Rule(**data) for a mapping: the model validates the fields
Validates(fields) ==
    /\ RequiredFields \subseteq DOMAIN fields
    /\ \A name \in RequiredFields : fields[name].t = "string"

\* what from_jsonl_line gives for what json.loads gave: a Rule, None, or an
\* exception that its except clause does not name
Loaded(rule_id, raised) == [rule_id |-> rule_id, raised |-> raised]

FromJson(data) ==
    IF data.t = "JSONDecodeError" THEN Loaded("", "")
    ELSE IF data.t # "object" THEN Loaded("", "TypeError")
    ELSE IF Validates(data.fields) THEN Loaded(data.fields.rule_id.s, "")
    ELSE Loaded("", "")

\* Rule.from_jsonl_line(line)
from_jsonl_line(line) == FromJson(json_loads(line))

IsWellFormed(line) == json_loads(line).t = "object" /\ Validates(json_loads(line).fields)

RECURSIVE LineLists(_)
LineLists(n) ==
    IF n = 0 THEN {<<>>}
    ELSE LineLists(n - 1) \cup {Append(l, x) : l \in {k \in LineLists(n - 1) : Len(k) = n - 1},
                                                 x \in Lines}

LoaderInit ==
    /\ \E lines \in LineLists(MaxLines) : loader = [NoLoader EXCEPT !.lines = lines, !.line_num = 1]
    /\ EvaluatorIdle
    /\ WorkflowIdle
    /\ report = NoReport
    /\ instance = NoInstance
    /\ runs = <<>>

\* the body of the loop for a line, with what from_jsonl_line gave for it
Read(line, parsed) ==
    IF line = "" THEN [loader EXCEPT !.line_num = loader.line_num + 1]
    ELSE IF parsed.raised # "" THEN [loader EXCEPT !.raised = parsed.raised]
    ELSE IF parsed.rule_id # ""
    THEN [loader EXCEPT !.line_num = loader.line_num + 1,
                        !.rules = Append(loader.rules, parsed.rule_id)]
    ELSE [loader EXCEPT !.line_num = loader.line_num + 1,
                        !.warnings = Append(loader.warnings, loader.line_num)]

\* one turn of the loop of load_rules_from_jsonl
load_line ==
    /\ loader.raised = ""
    /\ loader.line_num \in 1..Len(loader.lines)
    /\ loader' = Read(loader.lines[loader.line_num],
                      from_jsonl_line(loader.lines[loader.line_num]))
    /\ UNCHANGED <<logic_schema, financial_data, schema_id, _evidence, outcome, eval_calls,
                   frame, pc, world, state, next_node, trace, report, events,
                   instance, runs>>

LoaderNext == load_line

LoaderSpec == LoaderInit /\ [][LoaderNext]_vars

\* the lines read so far
ReadSoFar == SubSeq(loader.lines, 1, loader.line_num - 1)

RECURSIVE WellFormedIds(_, _)
WellFormedIds(lines, i) ==
    IF i > Len(lines) THEN <<>>
    ELSE (IF IsWellFormed(lines[i]) THEN <<json_loads(lines[i]).fields.rule_id.s>> ELSE <<>>)
         \o WellFormedIds(lines, i + 1)

\* C26: loading never fails because of a malformed line: no exception leaves the
\* load, the rules loaded are those of the well-formed lines read so far, in file
\* order, and each malformed line read so far has its warning
C26_MalformedLineIsSkipped ==
    /\ loader.raised = ""
    /\ loader.line_num >= 1 =>
          /\ loader.rules = WellFormedIds(ReadSoFar, 1)
          /\ \A i \in 1..Len(ReadSoFar) :
                (ReadSoFar[i] # "" /\ ~IsWellFormed(ReadSoFar[i]))
                    <=> \E j \in 1..Len(loader.warnings) : loader.warnings[j] = i

\* the audit steps of the run so far that handed a rule to the evaluator
EvaluatedSteps == {i \in StepsOf("audit") : trace[i].rule # 0}

\* C30: in every state of a run rules_checked is the number of rules the
\* evaluator was invoked on, and so is the total_rules_checked of the report
C30_CheckedIsEvaluated ==
    /\ state.rules_checked = Cardinality(EvaluatedSteps)
    /\ state.report.present =>
          state.report.total_rules_checked = Cardinality(EvaluatedSteps)

(***************************************************************************)
(* Binding by text and binding by meaning.  The tree of a rule is the tree *)
(* of its preprocessed text, a field name in it a Name node; binding by    *)
(* meaning puts the value of the record in the place of the Name.          *)
(***************************************************************************)
RECURSIVE WithValues(_, _), EachWithValues(_, _, _)

\* the tree with every Name that is a field of the record made the Constant of
\* the field's value
WithValues(node, data) ==
    CASE node.kind = "Name" ->
            IF HasKey(data, node.id) THEN Constant(Get(data, node.id)) ELSE node
      [] node.kind = "Constant" -> node
      [] node.kind \in {"List", "Tuple"} ->
            [node EXCEPT !.elts = EachWithValues(node.elts, data, 1)]
      [] node.kind = "BinOp" ->
            [node EXCEPT !.left = WithValues(node.left, data),
                         !.right = WithValues(node.right, data)]
      [] node.kind = "UnaryOp" -> [node EXCEPT !.operand = WithValues(node.operand, data)]
      [] node.kind = "Compare" ->
            [node EXCEPT !.left = WithValues(node.left, data),
                         !.comparators = EachWithValues(node.comparators, data, 1)]
      [] node.kind = "BoolOp" -> [node EXCEPT !.values = EachWithValues(node.values, data, 1)]
      [] node.kind = "Call" -> [node EXCEPT !.args = EachWithValues(node.args, data, 1)]
      [] node.kind = "IfExp" ->
            [node EXCEPT !.test = WithValues(node.test, data),
                         !.body = WithValues(node.body, data),
                         !.orelse = WithValues(node.orelse, data)]
      [] node.kind \in {"GeneratorExp", "ListComp"} ->
            [node EXCEPT !.elt = WithValues(node.elt, data),
                         !.iter = WithValues(node.iter, data),
                         !.ifs = EachWithValues(node.ifs, data, 1)]

EachWithValues(nodes, data, i) ==
    IF i > Len(nodes) THEN <<>>
    ELSE <<WithValues(nodes[i], data)>> \o EachWithValues(nodes, data, i + 1)

\* the tree of the rule as evaluate preprocessed it
RuleTree == AstParse(frame.processed)

MaxCalls == 3

\* the rules of the calls: a comparison, a malformed rule and a rule whose
\* evaluation raises SystemExit
InstanceRules == {AuditRules[1].logic_schema, AuditRules[3].logic_schema,
                  AuditRules[4].logic_schema}

\* the records of the calls: two fields, and each of the two alone
InstanceRecords ==
    {<<Item(F_ratio, PyInt(2)), Item(F_debt, PyInt(1))>>,
     <<Item(F_debt, PyInt(0))>>,
     <<Item(F_ratio, PyInt(1))>>}

\* LogicEvaluator(): __init__ makes the first dict
LogicEvaluator == [heap |-> << <<>> >>, _evidence |-> 1, returned |-> <<>>]

\* the dict self._evidence names is emptied, and stays the instance's dict
Reset_clearing(inst) == [inst EXCEPT !.heap[inst._evidence] = <<>>]

\* self._evidence = {}: a new dict, the one before is left as it is
Reset(inst) ==
    [inst EXCEPT !.heap = Append(inst.heap, <<>>), !._evidence = Len(inst.heap) + 1]

\* dict[key] = value: the value of a key the dict has is replaced where it is,
\* a new key goes to the end
SetItem(dict, it) ==
    IF \E i \in 1..Len(dict) : dict[i].key = it.key
    THEN [i \in 1..Len(dict) |-> IF dict[i].key = it.key THEN it ELSE dict[i]]
    ELSE Append(dict, it)

RECURSIVE SetItems(_, _, _)
SetItems(dict, items, i) ==
    IF i > Len(items) THEN dict ELSE SetItems(SetItem(dict, items[i]), items, i + 1)

\* self._evidence[key] = value for each item the call records
Written(inst, items) ==
    [inst EXCEPT !.heap[inst._evidence] = SetItems(inst.heap[inst._evidence], items, 1)]

\* what the caller has of a call: its arguments and the result dict, the
\* "evidence" of which is the dict self._evidence names, or the exception
Held(inst, schema, data, out) ==
    [logic_schema |-> schema, financial_data |-> data,
     outcome |-> IF out.returned THEN [out EXCEPT !.evidence = inst._evidence] ELSE out]

\* the caller keeps what the call gave
Kept(inst, schema, data, out) ==
    [inst EXCEPT !.returned = Append(inst.returned, Held(inst, schema, data, out))]

\* evaluate(schema, data) on the instance, call being the call's course
CallOn(inst, schema, data, call) ==
    Kept(Written(Reset(inst), call.evidence), schema, data, call.outcome)

InstanceInit ==
    /\ instance = LogicEvaluator
    /\ EvaluatorIdle
    /\ WorkflowIdle
    /\ report = NoReport
    /\ loader = NoLoader
    /\ runs = <<>>

\* one more call of evaluate on the instance
EvaluateAgain ==
    /\ Len(instance.returned) < MaxCalls
    /\ \E schema \in InstanceRules, data \in InstanceRecords :
          instance' = CallOn(instance, schema, data, evaluate(schema, data))
    /\ UNCHANGED <<logic_schema, financial_data, schema_id, _evidence, outcome, eval_calls,
                   frame, pc, world, state, next_node, trace, report, events, loader, runs>>

InstanceNext == EvaluateAgain

InstanceSpec == InstanceInit /\ [][InstanceNext]_vars

\* a result dict as its holder reads it now
Deref(inst, out) ==
    IF out.returned THEN [out EXCEPT !.evidence = inst.heap[out.evidence]] ELSE out

\* what the call gives on an evaluator just constructed
Fresh(held) == evaluate(held.logic_schema, held.financial_data).outcome

\* C28: on one evaluator used for any sequence of calls, every outcome the
\* caller holds, read now, is what the same call gives on a fresh evaluator, and
\* its evidence has no field that its own record does not have
C28_EvidenceResetEveryCall ==
    \A k \in 1..Len(instance.returned) :
        /\ Deref(instance, instance.returned[k].outcome) = Fresh(instance.returned[k])
        /\ instance.returned[k].outcome.returned =>
              \A i \in 1..Len(instance.heap[instance.returned[k].outcome.evidence]) :
                  instance.heap[instance.returned[k].outcome.evidence][i].key
                      \in Keys(instance.returned[k].financial_data)

\* a call on the record of one field, returned after a call on the record of two
\* fields that recorded both, and a later call made since
C28_Witness ==
    /\ Len(instance.returned) = 3
    /\ instance.returned[1].outcome.returned
    /\ Len(instance.heap[instance.returned[1].outcome.evidence]) = 2
    /\ instance.returned[2].outcome.returned
    /\ Len(instance.heap[instance.returned[2].outcome.evidence]) = 1
    /\ instance.returned[2].outcome.error = NoError

(***************************************************************************)
(* Audit runs under way at the same time.  Each run has the AuditState     *)
(* that create_initial_state made for it, a node is given the state of its *)
(* own run, and audit_node makes a LogicEvaluator of its own at each step; *)
(* the steps of the runs interleave in any order.                          *)
(***************************************************************************)
\* the rule lists of the concurrent runs: two rules each
ConcurrentRules == {l \in RetrievableRules : Len(l) = 2}

\* the document of the first run, and the documents of the second: another
\* record, or a document that cannot be parsed
FirstWorlds ==
    {w \in Worlds : /\ w.parsed /\ w.items = <<Item(F_ratio, PyInt(2)), Item(F_debt, PyInt(1))>>
                    /\ w.retrieved /\ w.rules \in ConcurrentRules
                    /\ w.reported /\ w.check_all_rules}

SecondWorlds ==
    {w \in Worlds : /\ Canonical(w)
                    /\ w.items \in {<<>>, <<Item(F_ratio, PyInt(-2)), Item(F_debt, PyInt(0))>>}
                    /\ (w.parsed <=> w.items # <<>>)
                    /\ w.retrieved /\ w.rules \in ConcurrentRules
                    /\ w.reported /\ w.check_all_rules}

\* runner.run(pdf_path): the run's own initial state, and the entry point
NewRun(w) ==
    [world |-> w, state |-> create_initial_state(w.check_all_rules), next_node |-> "parse",
     steps |-> 0]

\* the state of the first run, whichever run the node belongs to
StateOf_first(rs, r) == rs[1].state

\* the state a node of run r is given: the state of run r
StateOf(rs, r) == rs[r].state

\* the run after a node returned: the merged state and the next node
Moved(a_run, merged, next) ==
    [a_run EXCEPT !.state = merged, !.next_node = next, !.steps = a_run.steps + 1]

\* the run after audit_node, audit being what the node did
AfterAudit(a_run, st, audit) ==
    IF audit.raised # ""
    THEN [a_run EXCEPT !.next_node = "raised", !.steps = a_run.steps + 1]
    ELSE Moved(a_run, Merge(st, audit.update),
               should_continue_audit(Merge(st, audit.update)))

\* the run after its next node, given the state st
After(a_run, st) ==
    CASE a_run.next_node = "parse" -> Moved(a_run, Merge(st, parse_update(a_run.world)), "retrieve")
      [] a_run.next_node = "retrieve" ->
            Moved(a_run, Merge(st, retrieve_update(a_run.world)), "audit")
      [] a_run.next_node = "audit" -> AfterAudit(a_run, st, AuditStep(st))
      [] a_run.next_node = "report" ->
            Moved(a_run, Merge(st, report_update(st, a_run.world)), "END")

ConcurrentInit ==
    /\ \E first \in FirstWorlds, second \in SecondWorlds :
          runs = <<NewRun(first), NewRun(second)>>
    /\ EvaluatorIdle
    /\ WorkflowIdle
    /\ report = NoReport
    /\ loader = NoLoader
    /\ instance = NoInstance

\* the next node of one of the runs
RunNode ==
    /\ \E r \in 1..Len(runs) :
          /\ runs[r].next_node \in {"parse", "retrieve", "audit", "report"}
          /\ runs' = [runs EXCEPT ![r] = After(runs[r], StateOf(runs, r))]
    /\ UNCHANGED <<logic_schema, financial_data, schema_id, _evidence, outcome, eval_calls,
                   frame, pc, world, state, next_node, trace, report, events, loader,
                   instance>>

ConcurrentNext == RunNode

ConcurrentSpec == ConcurrentInit /\ [][ConcurrentNext]_vars

\* a run executed alone for k steps
RECURSIVE Alone(_, _)
Alone(a_run, k) == IF k = 0 THEN a_run ELSE Alone(After(a_run, a_run.state), k - 1)

====
